---- MODULE Spec2Model ----
(***************************************************************************)
(* A model of the core of ipkg: the requirement algebra                    *)
(* (ipkg/requirements.py), the dependency solver (ipkg/dependencies.py),   *)
(* the environment's install and uninstall (ipkg/environments.py), the     *)
(* build pipeline (ipkg/build.py) and the local package repository         *)
(* (ipkg/repositories.py).                                                 *)
(*                                                                         *)
(* Versions are written as integers, ten times the dotted version the      *)
(* formulas carry (10 is "1.0", 18 is "1.8"): pkg_resources.parse_version  *)
(* orders purely numeric versions as these integers are ordered, and the   *)
(* string a Requirement prints for such a version parses back to it.       *)
(*                                                                         *)
(* Platform defines __eq__ only; `a != b` is read as the negation of       *)
(* `a == b`.                                                               *)
(***************************************************************************)
EXTENDS Integers, Sequences, FiniteSets, TLC

(***************************************************************************)
(* Generic helpers.                                                        *)
(***************************************************************************)
Range(s) == {s[i] : i \in DOMAIN s}

MaxOf(S) == CHOOSE v \in S : \A w \in S : w <= v

\* The last of the sorted versions where the first is wanted.
LastOf(S) == CHOOSE v \in S : \A w \in S : w <= v

MinOf(S) == CHOOSE v \in S : \A w \in S : v <= w

\* All the orders in which the elements of a finite set can be listed.
RECURSIVE Perms(_)
Perms(S) ==
    IF S = {} THEN {<<>>} ELSE UNION {{<<x>> \o p : p \in Perms(S \ {x})} : x \in S}

\* The function f with key k (added when absent) mapped to v.
Put(f, k, v) == [x \in (DOMAIN f) \cup {k} |-> IF x = k THEN v ELSE f[x]]

EmptyMap == [x \in {} |-> {}]

\* The functions that map each key of choices to one element of choices[key].
RECURSIVE MapsOver(_)
MapsOver(choices) ==
    IF DOMAIN choices = {}
    THEN {EmptyMap}
    ELSE LET k == CHOOSE x \in DOMAIN choices : TRUE
             rest == [x \in DOMAIN choices \ {k} |-> choices[x]]
         IN  {Put(f, k, v) : f \in MapsOver(rest), v \in choices[k]}

(***************************************************************************)
(* ipkg/platforms.py                                                       *)
(***************************************************************************)
AnyPlatform == <<"any", "any", "any">>

CurrentPlatform == <<"linux", "1", "x86_64">>

ForeignPlatform == <<"osx", "10.8.4", "x86_64">>

\* Platform.__eq__: each component matches, or one side is the wildcard.
PlatformEq(p, q) == \A i \in 1..3 : p[i] = "any" \/ q[i] = "any" \/ p[i] = q[i]

(***************************************************************************)
(* ipkg/requirements.py                                                    *)
(***************************************************************************)
\* OPERATORS: the comparison a selector's operator stands for.
OPERATORS(op, a, b) ==
    CASE op = "==" -> a = b
      [] op = "!=" -> a # b
      [] op = ">"  -> a > b
      [] op = ">=" -> a >= b
      [] op = "<"  -> a < b
      [] op = "<=" -> a <= b

\* selectors[op] of remove_useless_version_selectors.
SelectorVersions(sels, op) == {s.ver : s \in {x \in sels : x.op = op}}

Selector(op, ver) == [op |-> op, ver |-> ver]

\* The canonical selector list, or ok = FALSE where the code raises
\* ExclusiveVersionRequirements.  An absent value (None) is the empty set, a
\* present one a singleton.
remove_useless_version_selectors(sels) ==
    LET gts == SelectorVersions(sels, ">")
        ges == SelectorVersions(sels, ">=")
        lts == SelectorVersions(sels, "<")
        les == SelectorVersions(sels, "<=")
        gt_ver == IF gts # {} THEN {MaxOf(gts)} ELSE {}
        ge_ver == IF ges # {} THEN {MaxOf(ges)} ELSE {}
        lt_ver == IF lts # {} THEN {MinOf(lts)} ELSE {}
        le_ver == IF les # {} THEN {MinOf(les)} ELSE {}
        l_selector ==
            IF le_ver # {}
            THEN IF lt_ver # {}
                 THEN IF MinOf(le_ver) < MinOf(lt_ver)
                      THEN {Selector("<=", MinOf(le_ver))}
                      ELSE {Selector("<", MinOf(lt_ver))}
                 ELSE {Selector("<=", MinOf(le_ver))}
            ELSE IF lt_ver # {} THEN {Selector("<", MinOf(lt_ver))} ELSE {}
        g_selector ==
            IF ge_ver # {}
            THEN IF gt_ver # {}
                 THEN IF MaxOf(ge_ver) <= MaxOf(gt_ver)
                      THEN {Selector(">", MaxOf(gt_ver))}
                      ELSE {Selector(">=", MaxOf(ge_ver))}
                 ELSE {Selector(">=", MaxOf(ge_ver))}
            ELSE IF gt_ver # {} THEN {Selector(">", MaxOf(gt_ver))} ELSE {}
        both == g_selector # {} /\ l_selector # {}
        g == CHOOSE s \in g_selector : TRUE
        l == CHOOSE s \in l_selector : TRUE
        collapse == both /\ g.ver = l.ver /\ g.op = ">=" /\ l.op = "<="
        exclusive_bounds == both /\ ((g.ver = l.ver /\ ~collapse) \/ g.ver > l.ver)
        eqs == SelectorVersions(sels, "==") \cup (IF collapse THEN {l.ver} ELSE {})
        g_final == IF collapse THEN {} ELSE g_selector
        l_final == IF collapse THEN {} ELSE l_selector
        AsSeq(S) == IF S = {} THEN <<>> ELSE <<CHOOSE s \in S : TRUE>>
    IN  IF exclusive_bounds \/ Cardinality(eqs) > 1
             \/ (eqs # {} /\ (l_final # {} \/ g_final # {}))
        THEN [ok |-> FALSE, versions |-> <<>>]
        ELSE [ok |-> TRUE,
              versions |-> AsSeq({Selector("==", v) : v \in eqs})
                             \o AsSeq(g_final) \o AsSeq(l_final)]

\* A dependency as a formula or a package declares it: the text
\* "[platform:]name[selectors]" in its parsed parts.  platform is <<>> when
\* the text names none.
Dep(name, sels) == [platform |-> <<>>, name |-> name, sels |-> sels]

\* Requirement.__init__: the platform named or the current one, and the
\* canonical selectors of parse().
Requirement(decl) ==
    [platform |-> IF decl.platform = <<>> THEN CurrentPlatform ELSE decl.platform,
     name     |-> decl.name,
     versions |-> remove_useless_version_selectors(decl.sels).versions]

\* Requirement.__make_versions_str writes a version from the parts of its
\* parsed form that come before '*final'.  The parsed form of the version
\* zero has no such part (parse_version drops the trailing zeros), so its
\* text is empty; the text of any other version names it.
make_version(ver) == IF ver = 0 THEN <<>> ELSE <<ver>>

\* Requirement.__make_versions_str, for a set of selectors.
make_versions_str(versions) ==
    {[op |-> s.op, text |-> make_version(s.ver)] : s \in versions}

\* The text of the selectors as a formula or a program writes them.
VersionsStr(sels) == {[op |-> s.op, text |-> <<s.ver>>] : s \in sels}

\* parse_version, lines 167-179, of each text of selector, and parse, lines
\* 196-197.  RE_VERSION_REQUIREMENT wants one character of version at least:
\* where the text has none, line 171 raises InvalidRequirementVersion, a name
\* the module does not define.
parse(versions_str) ==
    LET Canonical(canon) ==
            IF canon.ok
            THEN [ok |-> TRUE, err |-> "", versions |-> canon.versions]
            ELSE [ok |-> FALSE, err |-> "ExclusiveVersionRequirements",
                  versions |-> <<>>]
    IN  IF \E t \in versions_str : t.text = <<>>
        THEN [ok |-> FALSE, err |-> "NameError", versions |-> <<>>]
        ELSE Canonical(remove_useless_version_selectors(
                           {Selector(t.op, t.text[1]) : t \in versions_str}))

\* Requirement.__add__: ok = FALSE with the exception's name where it raises.
\* The sum is made from the text of both operands, lines 104-108.
RequirementAdd(self, other) ==
    LET Sum(canon) ==
            IF canon.ok
            THEN [ok |-> TRUE, err |-> "",
                  req |-> [platform |-> self.platform, name |-> self.name,
                           versions |-> canon.versions]]
            ELSE [ok |-> FALSE, err |-> canon.err, req |-> self]
    IN  IF self.name # other.name
        THEN [ok |-> FALSE, err |-> "InvalidRequirement", req |-> self]
        ELSE IF ~PlatformEq(self.platform, other.platform)
        THEN [ok |-> FALSE, err |-> "InvalidPlatform", req |-> self]
        ELSE Sum(parse(make_versions_str(
                           Range(self.versions) \cup Range(other.versions))))

\* Requirement.satisfied_by_version
satisfied_by_version(req, version) ==
    \A i \in DOMAIN req.versions :
        OPERATORS(req.versions[i].op, version, req.versions[i].ver)

\* Requirement.satisfied_by, for an object with platform, name and version.
satisfied_by(req, obj) ==
    /\ PlatformEq(obj.platform, req.platform)
    /\ obj.name = req.name
    /\ satisfied_by_version(req, obj.version)

(***************************************************************************)
(* The objects the model works with: formulas of a formula repository and  *)
(* packages installed in an environment.  The first group is the "numbers" *)
(* family of tests/test_dependencies.py, the second its loop family; the   *)
(* others are a name that comes back to an older version of the root       *)
(* (n, m), a root with a newer namesake (x, y), a loop no selected         *)
(* satisfier leads to (u, w), a requirement an installed package satisfies *)
(* (r, p), a formula whose requirements exclude those of another (k), and  *)
(* an installed package with a requirement nothing else has (s, q).        *)
(***************************************************************************)
Formula(name, version, dependencies) ==
    [kind |-> "formula", name |-> name, version |-> version,
     platform |-> AnyPlatform, dependencies |-> dependencies]

InstalledPackage(name, version, dependencies) ==
    [kind |-> "installed", name |-> name, version |-> version,
     platform |-> AnyPlatform, dependencies |-> dependencies]

FormulaKeys ==
    {"one-1.0", "two-1.5", "two-1.6", "two-2.0", "three-2.0",
     "four-1.0", "four-1.8", "four-2.0", "five-1.0",
     "loop-a-1.0", "loop-b-1.0", "loop-c-1.0",
     "n-1.0", "n-2.0", "m-1.0",
     "x-0.5", "x-1.0", "y-1.0",
     "u-1.0", "w-1.0", "w-2.0",
     "r-1.0", "k-1.0", "s-1.0"}

PackageKeys == {"p-1.0", "q-1.0"}

Keys == FormulaKeys \cup PackageKeys

ObjectOf(key) ==
    CASE key = "one-1.0" ->
           Formula("one", 10, {Dep("two", {Selector(">", 10), Selector("<", 20)}),
                               Dep("three", {Selector("==", 20)})})
      [] key = "two-1.5" ->
           Formula("two", 15, {Dep("four", {Selector("<", 20)}), Dep("five", {})})
      [] key = "two-1.6" ->
           Formula("two", 16, {Dep("four", {Selector("<", 20)}), Dep("five", {})})
      [] key = "two-2.0" ->
           Formula("two", 20, {Dep("four", {Selector("<", 20)}), Dep("five", {})})
      [] key = "three-2.0" -> Formula("three", 20, {})
      [] key = "four-1.0" -> Formula("four", 10, {})
      [] key = "four-1.8" -> Formula("four", 18, {})
      [] key = "four-2.0" -> Formula("four", 20, {})
      [] key = "five-1.0" -> Formula("five", 10, {Dep("four", {Selector(">", 10)})})
      [] key = "loop-a-1.0" ->
           Formula("loop-a", 10, {Dep("loop-b", {}), Dep("loop-c", {})})
      [] key = "loop-b-1.0" -> Formula("loop-b", 10, {Dep("loop-c", {})})
      [] key = "loop-c-1.0" -> Formula("loop-c", 10, {Dep("loop-b", {})})
      [] key = "n-1.0" -> Formula("n", 10, {Dep("m", {})})
      [] key = "n-2.0" -> Formula("n", 20, {Dep("m", {})})
      [] key = "m-1.0" -> Formula("m", 10, {Dep("n", {Selector(">=", 20)})})
      [] key = "x-0.5" -> Formula("x", 5, {Dep("y", {})})
      [] key = "x-1.0" -> Formula("x", 10, {})
      [] key = "y-1.0" -> Formula("y", 10, {Dep("x", {})})
      [] key = "u-1.0" -> Formula("u", 10, {Dep("w", {})})
      [] key = "w-1.0" -> Formula("w", 10, {Dep("loop-b", {})})
      [] key = "w-2.0" -> Formula("w", 20, {})
      [] key = "r-1.0" -> Formula("r", 10, {Dep("p", {}), Dep("four", {})})
      [] key = "k-1.0" ->
           Formula("k", 10, {Dep("five", {}), Dep("four", {Selector(">=", 20)})})
      [] key = "s-1.0" -> Formula("s", 10, {Dep("q", {})})
      [] key = "p-1.0" -> InstalledPackage("p", 10, {Dep("four", {})})
      [] key = "q-1.0" -> InstalledPackage("q", 10, {Dep("z", {})})

\* An object is a key of the catalogue and the number of the copy: two
\* objects loaded from the same file are equal in content and distinct in
\* identity, and a dictionary keyed by objects tells them apart (Formula and
\* BasePackage define __eq__ and keep the identity hash).
Object(key, copy) == [key |-> key, copy |-> copy]

\* The requirements Node.__init__ makes of obj.dependencies.
RequirementsOf(key) == {Requirement(d) : d \in ObjectOf(key).dependencies}

\* The formulas of the repository, each loaded once.
Repository == {Object(k, 0) : k \in FormulaKeys}

\* environment.packages
EnvironmentPackages == PackageKeys

\* The repositories from_obj may be given with obj: none, the repository of
\* every formula, or a repository that has every formula but that of obj.
RepositoryLists(obj) ==
    {<<>>, <<Repository>>, <<Repository \ {Object(obj.key, 0)}>>}

\* The objects from_obj is called with: formulas of the repository, and
\* formulas loaded again from their file.
FromObjRoots ==
    {Object("one-1.0", 0), Object("loop-a-1.0", 0), Object("loop-b-1.0", 0),
     Object("loop-b-1.0", 1), Object("n-1.0", 1), Object("x-0.5", 1),
     Object("u-1.0", 0), Object("r-1.0", 0), Object("s-1.0", 0)}

\* The objects add is called with on a solver made by Solver().
AddPool ==
    {Object("two-1.6", 0), Object("four-1.8", 0), Object("four-2.0", 0),
     Object("five-1.0", 0), Object("k-1.0", 0)}

(***************************************************************************)
(* ipkg/dependencies.py: the solver's data.                                *)
(*                                                                         *)
(* A node is named after its object.  A Node that add() made before it     *)
(* raised is in no list of the solver, yet the requesters of the           *)
(* requirements merged before the failure keep it: failed numbers such     *)
(* nodes (0 is the node add() returned).                                   *)
(***************************************************************************)
VARIABLES
    nodes,          \* Solver.nodes: the list of nodes
    objects,        \* Solver.objects: the objects that have a node
    requirements,   \* Solver.requirements: name -> SolverRequirement
    heap,           \* the Node objects: node -> requirements, order, dependents
    origin,         \* what made the solver: "Solver" or "from_obj"
    pc,             \* "idle", or the operation in progress
    from_obj_queue, \* from_obj: queue, a set of <<node, requirement>>
    environment,    \* from_obj: the packages of the environment argument
    repositories,   \* from_obj: the list of repositories
    target,         \* solve: the target argument, {} for None
    selected,       \* solve: name -> the node dependency_selector returns
    ignore_installed_packages,
    sorted_nodes,   \* solve: sorted_nodes
    queue,          \* solve: queue
    node_dependents,\* solve: node_dependents
    visited,        \* solve: the <<queue, node_dependents>> the loop was in
    outcome         \* how the last operation ended, and its result

solver_vars ==
    <<nodes, objects, requirements, heap, origin, pc, from_obj_queue,
      environment, repositories, target, selected, ignore_installed_packages,
      sorted_nodes, queue, node_dependents, visited, outcome>>

NodeOf(obj) == [key |-> obj.key, copy |-> obj.copy, failed |-> 0]

ObjectOfNode(node) == Object(node.key, node.copy)

\* node.obj
Obj(node) == ObjectOf(node.key)

\* The node of an add() of obj that raises.
FailedNode(h, obj) ==
    [key |-> obj.key, copy |-> obj.copy,
     failed |-> 1 + Cardinality({n \in DOMAIN h :
                                   n.key = obj.key /\ n.copy = obj.copy /\ n.failed > 0})]

\* Node.__init__.  order is the order in which the requirements dictionary
\* iterates, which is fixed when the dictionary is filled.
Node(order) ==
    [requirements |-> [q \in Range(order) |-> {}],
     order |-> order,
     dependents |-> {}]

\* Node.unsatisfied
NodeUnsatisfied(h, node) == {q \in DOMAIN h[node].requirements : h[node].requirements[q] = {}}

\* SolverRequirement.__init__
SolverRequirement(name) ==
    [name |-> name, merged |-> Requirement(Dep(name, {})),
     requesters |-> EmptyMap, satisfiers |-> {}]

\* SolverRequirement.merge
merge(sr, requirement, requester) ==
    LET Merged(sum) ==
            IF sum.ok
            THEN [ok |-> TRUE, err |-> "",
                  sr |-> [name |-> sr.name,
                          merged |-> sum.req,
                          requesters |-> Put(sr.requesters, requester, requirement),
                          satisfiers |-> {x \in sr.satisfiers :
                                            satisfied_by(sum.req, Obj(x))}]]
            ELSE [ok |-> FALSE, err |-> sum.err, sr |-> sr]
    IN  Merged(RequirementAdd(sr.merged, requirement))

\* The solver as one value, for the operators below.
SolverState ==
    [nodes |-> nodes, objects |-> objects, requirements |-> requirements, heap |-> heap]

NewSolverState ==
    [nodes |-> <<>>, objects |-> {}, requirements |-> EmptyMap, heap |-> EmptyMap]

\* SolverRequirement.satisfy, of the requirement called name
satisfy(s, name, node) ==
    LET sr == s.requirements[name]
        h == s.heap
    IN  IF satisfied_by(sr.merged, Obj(node))
        THEN [s EXCEPT
                !.requirements = Put(s.requirements, name,
                                     [sr EXCEPT !.satisfiers = sr.satisfiers \cup {node}]),
                !.heap = [n \in DOMAIN h |->
                            [requirements |->
                                IF n \in DOMAIN sr.requesters
                                THEN [q \in DOMAIN h[n].requirements |->
                                        IF q = sr.requesters[n]
                                        THEN h[n].requirements[q] \cup {node}
                                        ELSE h[n].requirements[q]]
                                ELSE h[n].requirements,
                             order |-> h[n].order,
                             dependents |->
                                IF n = node
                                THEN h[n].dependents \cup DOMAIN sr.requesters
                                ELSE h[n].dependents]]]
        ELSE s

\* The loop of Solver.add over new_node.requirements, from the i-th on.
RECURSIVE AddMerges(_, _, _, _)
AddMerges(s, new_node, order, i) ==
    LET Merge(req_name, with_req) ==
            LET Merged(m) ==
                    IF m.ok
                    THEN AddMerges([s EXCEPT !.requirements = Put(with_req, req_name, m.sr)],
                                   new_node, order, i + 1)
                    ELSE [ok |-> FALSE, err |-> m.err,
                          s |-> [s EXCEPT !.requirements = with_req]]
            IN  Merged(merge(with_req[req_name], order[i], new_node))
    IN  IF i > Len(order)
        THEN [ok |-> TRUE, err |-> "", s |-> s]
        ELSE Merge(order[i].name,
                   IF order[i].name \in DOMAIN s.requirements
                   THEN s.requirements
                   ELSE Put(s.requirements, order[i].name,
                            SolverRequirement(order[i].name)))

\* A solver that takes every object for a new one.
NeverAdded(s, obj) == FALSE

\* obj in self.objects: the identity of obj is a key of Solver.objects.
AlreadyAdded(s, obj) == obj \in s.objects

\* Solver.add.  Where it raises, s is the solver it leaves behind.
add(s, obj, order) ==
    LET new_node == NodeOf(obj)
        Satisfied(merged) ==
            IF Obj(new_node).name \in DOMAIN merged.requirements
            THEN satisfy(merged, Obj(new_node).name, new_node)
            ELSE merged
        Added(satisfied) ==
            [ok |-> TRUE, err |-> "",
             s |-> [satisfied EXCEPT !.nodes = Append(satisfied.nodes, new_node),
                                     !.objects = satisfied.objects \cup {obj}],
             node |-> new_node]
        Failed(err, lost) ==
            [ok |-> FALSE, err |-> err,
             s |-> AddMerges([s EXCEPT !.heap = Put(s.heap, lost, Node(order))],
                             lost, order, 1).s,
             node |-> lost]
        Merged(merged) ==
            IF merged.ok
            THEN Added(Satisfied(merged.s))
            ELSE Failed(merged.err, FailedNode(s.heap, obj))
    IN  IF AlreadyAdded(s, obj)
        THEN [ok |-> FALSE, err |-> "IpkgException", s |-> s, node |-> new_node]
        ELSE Merged(AddMerges([s EXCEPT !.heap = Put(s.heap, new_node, Node(order))],
                              new_node, order, 1))

\* A solver that has every requirement satisfied.
NoneUnsatisfied(s) == {}

\* Solver.unsatisfied
unsatisfied(s) ==
    {s.requirements[n].merged : n \in {x \in DOMAIN s.requirements :
                                         s.requirements[x].satisfiers = {}}}

(***************************************************************************)
(* Solver(), Solver.add and Solver.from_obj                                *)
(***************************************************************************)
NoOutcome == [op |-> "Solver", status |-> "returned", message |-> "", result |-> <<>>]

Returned(op, result) == [op |-> op, status |-> "returned", message |-> "", result |-> result]

Raised(op, exception, message) ==
    [op |-> op, status |-> exception, message |-> message, result |-> <<>>]

\* The variables an operation in progress uses, when none is.
FromObjIdle ==
    /\ from_obj_queue' = {}
    /\ environment' = {}
    /\ repositories' = <<>>

SolveIdle ==
    /\ sorted_nodes' = <<>>
    /\ queue' = <<>>
    /\ node_dependents' = EmptyMap
    /\ visited' = {}

NoTarget ==
    /\ target' = {}
    /\ selected' = EmptyMap
    /\ ignore_installed_packages' = TRUE

SetSolver(s) ==
    /\ nodes' = s.nodes
    /\ objects' = s.objects
    /\ requirements' = s.requirements
    /\ heap' = s.heap

SolverInit ==
    /\ nodes = <<>>
    /\ objects = {}
    /\ requirements = EmptyMap
    /\ heap = EmptyMap
    /\ origin = "Solver"
    /\ pc = "idle"
    /\ from_obj_queue = {}
    /\ environment = {}
    /\ repositories = <<>>
    /\ target = {}
    /\ selected = EmptyMap
    /\ ignore_installed_packages = TRUE
    /\ sorted_nodes = <<>>
    /\ queue = <<>>
    /\ node_dependents = EmptyMap
    /\ visited = {}
    /\ outcome = NoOutcome

\* The number of Node objects a solver made by Solver() is given.
MaxAdds == 3

\* Solver(): a new, empty solver replaces the one at hand.
NewSolver ==
    /\ pc = "idle"
    /\ nodes # <<>> \/ heap # EmptyMap
    /\ SetSolver(NewSolverState)
    /\ origin' = "Solver"
    /\ outcome' = NoOutcome
    /\ FromObjIdle /\ SolveIdle /\ NoTarget
    /\ UNCHANGED pc

\* solver.add(obj) on a solver made by Solver().  skip_dependencies is the
\* empty order.
Add(obj, order) ==
    /\ pc = "idle"
    /\ origin = "Solver"
    /\ Cardinality(DOMAIN heap) < MaxAdds
    /\ \E r \in {add(SolverState, obj, order)} :
          /\ SetSolver(r.s)
          /\ outcome' = IF r.ok THEN Returned("add", <<r.node>>)
                        ELSE Raised("add", r.err, "")
    /\ FromObjIdle /\ SolveIdle /\ NoTarget
    /\ UNCHANGED <<origin, pc>>

\* repository.find(requirement): the objects of the repository that satisfy
\* the requirement, the most recent version first.
RECURSIVE SortDescending(_)
SortDescending(S) ==
    IF S = {}
    THEN <<>>
    ELSE LET first == CHOOSE o \in S :
                          \A p \in S : ObjectOf(p.key).version <= ObjectOf(o.key).version
         IN  <<first>> \o SortDescending(S \ {first})

find(repository, requirement) ==
    SortDescending({o \in repository : satisfied_by(requirement, ObjectOf(o.key))})

\* What the loop over the repositories finds, in the order it adds it.
RECURSIVE FindAll(_, _, _)
FindAll(repos, requirement, i) ==
    IF i > Len(repos)
    THEN <<>>
    ELSE find(repos[i], requirement) \o FindAll(repos, requirement, i + 1)

\* An order of its requirements for each of the objects.
OrdersFor(objs) == MapsOver([o \in objs |-> Perms(RequirementsOf(o.key))])

Pairs(node, order) == {<<node, order[i]>> : i \in DOMAIN order}

\* from_obj, lines 249-254: add every satisfier and queue its requirements.
RECURSIVE AddSatisfiers(_, _, _, _, _)
AddSatisfiers(s, q, satisfiers, orders, i) ==
    LET Added(r) ==
            IF r.ok
            THEN AddSatisfiers(r.s, q \cup Pairs(r.node, orders[satisfiers[i]]),
                               satisfiers, orders, i + 1)
            ELSE [ok |-> FALSE, err |-> r.err, s |-> s, queue |-> q]
    IN  IF i > Len(satisfiers)
        THEN [ok |-> TRUE, err |-> "", s |-> s, queue |-> q]
        ELSE Added(add(s, satisfiers[i], orders[satisfiers[i]]))

\* A package of the environment is an InstalledPackage made anew by each
\* read of environment.packages.
EnvironmentObject(s, key) ==
    Object(key, 1 + Cardinality({o \in s.objects : o.key = key}))

\* from_obj raises: the solver it was making is lost.
FromObjRaise(err) ==
    /\ SetSolver(NewSolverState)
    /\ FromObjIdle
    /\ origin' = "Solver"
    /\ pc' = "idle"
    /\ outcome' = Raised("from_obj", err, "")

\* from_obj, lines 206-211.  The model holds one solver: from_obj makes its
\* own when none is held.
FromObjBegin(obj, order, env, repos) ==
    /\ pc = "idle"
    /\ heap = EmptyMap
    /\ \E r \in {add(NewSolverState, obj, order)} :
          IF r.ok
          THEN /\ SetSolver(r.s)
               /\ from_obj_queue' = Pairs(r.node, order)
               /\ environment' = env
               /\ repositories' = repos
               /\ origin' = "from_obj"
               /\ pc' = "from_obj"
               /\ outcome' = [op |-> "from_obj", status |-> "running",
                              message |-> "", result |-> <<obj>>]
          ELSE FromObjRaise(r.err)
    /\ SolveIdle /\ NoTarget

\* One turn of the loop of from_obj, lines 213-254.
FromObjLoop ==
    /\ pc = "from_obj"
    /\ \E item \in from_obj_queue :
         LET requiring_node == item[1]
             requirement == item[2]
             rest == from_obj_queue \ {item}
             sr == requirements[requirement.name]
         IN  IF requirement.name \in DOMAIN requirements /\ sr.satisfiers # {}
             THEN /\ heap' = [n \in DOMAIN heap |->
                                [requirements |->
                                    IF n = requiring_node
                                    THEN [q \in DOMAIN heap[n].requirements |->
                                            IF q = requirement THEN sr.satisfiers
                                            ELSE heap[n].requirements[q]]
                                    ELSE heap[n].requirements,
                                 order |-> heap[n].order,
                                 dependents |->
                                    IF n \in sr.satisfiers
                                    THEN heap[n].dependents \cup {requiring_node}
                                    ELSE heap[n].dependents]]
                  /\ from_obj_queue' = rest
                  /\ UNCHANGED <<nodes, objects, requirements, origin, pc,
                                 environment, repositories, outcome>>
             ELSE \E packages \in {{k \in environment :
                                      satisfied_by(requirement, ObjectOf(k))}} :
                  IF packages # {}
                  THEN \E k \in packages :
                         \E order \in Perms(RequirementsOf(k)) :
                            \E r \in {add(SolverState, EnvironmentObject(SolverState, k),
                                          order)} :
                               IF r.ok
                               THEN /\ SetSolver(r.s)
                                    /\ from_obj_queue' = rest
                                    /\ UNCHANGED <<origin, pc, environment,
                                                   repositories, outcome>>
                               ELSE FromObjRaise(r.err)
                  ELSE \E found \in {FindAll(repositories, requirement, 1)} :
                         \E orders \in OrdersFor(Range(found)) :
                            \E r \in {AddSatisfiers(SolverState, rest, found, orders, 1)} :
                               IF r.ok
                               THEN /\ SetSolver(r.s)
                                    /\ from_obj_queue' = r.queue
                                    /\ UNCHANGED <<origin, pc, environment,
                                                   repositories, outcome>>
                               ELSE FromObjRaise(r.err)
    /\ UNCHANGED <<target, selected, ignore_installed_packages, sorted_nodes,
                   queue, node_dependents, visited>>

\* from_obj, line 256
FromObjReturn ==
    /\ pc = "from_obj"
    /\ from_obj_queue = {}
    /\ pc' = "idle"
    /\ outcome' = Returned("from_obj", outcome.result)
    /\ FromObjIdle
    /\ UNCHANGED <<nodes, objects, requirements, heap, origin, target, selected,
                   ignore_installed_packages, sorted_nodes, queue,
                   node_dependents, visited>>

(***************************************************************************)
(* select_most_recent_version, Solver.find_best_dependencies, Solver.solve *)
(***************************************************************************)
\* versions.most_recent over the versions of the objects: the nodes that
\* select_most_recent_version can return (one, unless two of the nodes have
\* the same version).
select_most_recent_version(node_set) ==
    {n \in node_set : \A m \in node_set : Obj(m).version <= Obj(n).version}

\* The names whose SolverRequirement has a satisfier.
SatisfiedNames(s) == {n \in DOMAIN s.requirements : s.requirements[n].satisfiers # {}}

\* What dependency_selector can answer for each name: the same set is asked
\* the same way each time within a solve, so the answer is one per name.
Selections(s) ==
    MapsOver([n \in SatisfiedNames(s) |->
                select_most_recent_version(s.requirements[n].satisfiers)])

RequirementNames(s, node) == {q.name : q \in DOMAIN s.heap[node].requirements}

\* The names find_best_dependencies takes from req_queue, were it not to
\* raise: those of the target's requirements and of the requirements of each
\* satisfier it selects.
RECURSIVE ReachedNames(_, _, _)
ReachedNames(s, sel, names) ==
    LET next == names \cup
                UNION {RequirementNames(s, sel[n]) : n \in names \cap DOMAIN sel}
    IN  IF next = names THEN names ELSE ReachedNames(s, sel, next)

\* find_best_dependencies: the selected satisfier of each name reached, or
\* ok = FALSE where a name reached has no satisfier.
find_best_dependencies(s, sel, target_node) ==
    LET names == ReachedNames(s, sel, RequirementNames(s, target_node))
    IN  [ok |-> names \subseteq DOMAIN sel,
         dependencies |-> {sel[n] : n \in names \cap DOMAIN sel}]

\* isinstance(node.obj, MetaPackage): the objects that stand for installed
\* packages.
IsMetaPackage(node) == Obj(node).kind = "installed"

Reverse(seq) == [i \in 1..Len(seq) |-> seq[Len(seq) + 1 - i]]

\* The test that takes every node for a root.
EveryNodeIsRoot(node) == TRUE

HasNoDependents(node) == heap[node].dependents = {}

\* The result in the order the nodes were taken from the queue: dependents
\* before their dependencies.
SolveResultUnreversed(sorted, ignore) ==
    LET Kept(node) == ~(ignore /\ IsMetaPackage(node))
        kept == SelectSeq(sorted, Kept)
    IN  [i \in 1..Len(kept) |-> ObjectOfNode(kept[i])]

\* solve, lines 391-399
SolveResult(sorted, ignore) ==
    LET Kept(node) == ~(ignore /\ IsMetaPackage(node))
        kept == SelectSeq(Reverse(sorted), Kept)
    IN  [i \in 1..Len(kept) |-> ObjectOfNode(kept[i])]

\* solve, lines 349-382: the requirements of node from the i-th on.
RECURSIVE SolveRequirements(_, _, _, _, _, _)
SolveRequirements(sel, node, order, i, q, nd) ==
    LET Seen(dependency, first) ==
            LET Left(left) ==
                    SolveRequirements(sel, node, order, i + 1,
                                      IF left = {} THEN Append(q, dependency) ELSE q,
                                      Put(first, dependency, left))
            IN  Left({d \in first[dependency] : Obj(d).name # Obj(node).name})
        Selected(dependency) ==
            Seen(dependency,
                 IF dependency \in DOMAIN nd
                 THEN nd
                 ELSE Put(nd, dependency, heap[dependency].dependents))
    IN  IF i > Len(order)
        THEN [ok |-> TRUE, queue |-> q, node_dependents |-> nd]
        ELSE IF order[i].name \notin DOMAIN sel
        THEN [ok |-> FALSE, queue |-> q, node_dependents |-> nd]
        ELSE Selected(sel[order[i].name])

\* The objects solve is given as target: those of the solver and one that may
\* not be in it.
Targets == objects \cup {Object("three-2.0", 0)}

SolveRaise(exception, message) ==
    /\ pc' = "idle"
    /\ outcome' = Raised("solve", exception, message)
    /\ SolveIdle

\* The queue made of every node of the solver that has no dependents, whether
\* the target leads to it or not.
RootsOfAllNodes(target_node, dependencies) == {SelectSeq(nodes, HasNoDependents)}

\* solve, lines 328-335: nodes is the target followed by the values of the
\* dictionary find_best_dependencies filled, in the order the dictionary
\* gives them; the queue is made of those of nodes that have no dependents.
TargetRoots(target_node, dependencies) ==
    {SelectSeq(<<target_node>>, HasNoDependents) \o p :
        p \in Perms({d \in dependencies : HasNoDependents(d)})}

\* solve, lines 338-342: the loop begins, unless the queue is empty.
SolveFrom(roots) ==
    IF roots = <<>>
    THEN SolveRaise("IpkgException", "Cannot find a node (loop?)")
    ELSE /\ pc' = "solve"
         /\ queue' = roots
         /\ sorted_nodes' = <<>>
         /\ node_dependents' = EmptyMap
         /\ visited' = {}
         /\ outcome' = [op |-> "solve", status |-> "running",
                        message |-> "", result |-> <<>>]

\* solve, lines 318-340
SolveBegin(t, ignore) ==
    /\ pc = "idle"
    /\ target' = t
    /\ ignore_installed_packages' = ignore
    /\ \E sel \in Selections(SolverState) :
         /\ selected' = sel
         /\ IF t # {} /\ ~(t \subseteq objects)
            THEN SolveRaise("IpkgException", "Unknown target")
            ELSE IF t = {}
            THEN \E roots \in {SelectSeq(nodes, HasNoDependents)} :
                    SolveFrom(roots)
            ELSE \E target_node \in {NodeOf(o) : o \in t} :
                 \E best \in {find_best_dependencies(SolverState, sel, target_node)} :
                    IF ~best.ok
                    THEN SolveRaise("IpkgException", "No satisfier found")
                    ELSE \E roots \in TargetRoots(target_node, best.dependencies) :
                            SolveFrom(roots)
    /\ UNCHANGED <<nodes, objects, requirements, heap, origin, from_obj_queue,
                   environment, repositories>>

\* One turn of the loop of solve, lines 344-385.
SolveLoop ==
    /\ pc = "solve"
    /\ queue # <<>>
    /\ <<queue, node_dependents>> \notin visited
    /\ \E node \in {Head(queue)} :
       \E r \in {SolveRequirements(selected, node, heap[node].order, 1,
                                   Tail(queue), node_dependents)} :
          IF r.ok
          THEN /\ sorted_nodes' = Append(sorted_nodes, node)
               /\ queue' = r.queue
               /\ node_dependents' = r.node_dependents
               /\ visited' = visited \cup {<<queue, node_dependents>>}
               /\ UNCHANGED <<pc, outcome>>
          ELSE SolveRaise("IpkgException", "Unsatisfied requirement")
    /\ UNCHANGED <<nodes, objects, requirements, heap, origin, from_obj_queue,
                   environment, repositories, target, selected,
                   ignore_installed_packages>>

\* The loop is where it was before, with the same queue and the same
\* node_dependents: each turn being a function of these, it never ends, and
\* sorted_nodes grows until the process has no memory left.
SolveDiverges ==
    /\ pc = "solve"
    /\ queue # <<>>
    /\ <<queue, node_dependents>> \in visited
    /\ pc' = "idle"
    /\ outcome' = [op |-> "solve", status |-> "diverges", message |-> "",
                   result |-> sorted_nodes]
    /\ SolveIdle
    /\ UNCHANGED <<nodes, objects, requirements, heap, origin, from_obj_queue,
                   environment, repositories, target, selected,
                   ignore_installed_packages>>

\* solve, lines 387-399
SolveEnd ==
    /\ pc = "solve"
    /\ queue = <<>>
    /\ pc' = "idle"
    /\ outcome' = IF \E n \in DOMAIN node_dependents : node_dependents[n] # {}
                  THEN Raised("solve", "DependencyLoop", "")
                  ELSE Returned("solve", SolveResult(sorted_nodes, ignore_installed_packages))
    /\ SolveIdle
    /\ UNCHANGED <<nodes, objects, requirements, heap, origin, from_obj_queue,
                   environment, repositories, target, selected,
                   ignore_installed_packages>>



(***************************************************************************)
(* ipkg/environments.py and ipkg/packages.py: an environment, and the      *)
(* package files it is given.                                              *)
(*                                                                         *)
(* A package file is a key of the table below.  Paths are relative to the  *)
(* prefix of the environment; "" is the prefix itself.                     *)
(***************************************************************************)
PackageFile(name, version, revision, files, dependencies, envvars) ==
    [name |-> name, version |-> version, revision |-> revision,
     platform |-> AnyPlatform, files |-> files, dependencies |-> dependencies,
     build_prefix |-> "/build", envvars |-> envvars]

PackageFiles ==
    {"foo-1.0-1", "foo-2.0-1", "bar-1.0-1", "foo-bar-1.0-1", "clash-1.0-1",
     "cyc-a-1.0-1", "cyc-b-1.0-1"}

\* PackageFile.meta
MetaOf(key) ==
    CASE key = "foo-1.0-1" ->
           PackageFile("foo", 10, 1, <<"foo.README", "share/doc/foo/README">>, <<>>, {})
      [] key = "foo-2.0-1" ->
           PackageFile("foo", 20, 1, <<"foo.README", "bin/foo">>, <<>>,
                       {<<"FOO_HOME", "%(env_dir)s">>})
      [] key = "bar-1.0-1" -> PackageFile("bar", 10, 1, <<"bar.README">>, <<>>, {})
      [] key = "foo-bar-1.0-1" ->
           PackageFile("foo-bar", 10, 1, <<"foo-bar.README">>,
                       <<Dep("foo", {}), Dep("bar", {})>>, {})
      [] key = "clash-1.0-1" -> PackageFile("clash", 10, 1, <<"foo.README">>, <<>>, {})
      [] key = "cyc-a-1.0-1" -> PackageFile("cyc-a", 10, 1, <<>>, <<Dep("cyc-b", {})>>, {})
      [] key = "cyc-b-1.0-1" -> PackageFile("cyc-b", 10, 1, <<>>, <<Dep("cyc-a", {})>>, {})

\* The formulas that are built: what a formula declares, and the files its
\* install step writes under the prefix.  baz.py gathers dependencies and
\* writes no file of its own.
BuildFormula(name, version, dependencies, installs) ==
    [name |-> name, version |-> version, revision |-> 1,
     dependencies |-> dependencies, installs |-> installs]

BuildFormulas == {"foo.py", "foo-bar.py", "baz.py"}

FormulaOf(key) ==
    CASE key = "foo.py" -> BuildFormula("foo", 10, <<>>, {"foo.README"})
      [] key = "foo-bar.py" ->
           BuildFormula("foo-bar", 10, <<Dep("foo", {}), Dep("bar", {})>>,
                        {"foo-bar.README"})
      [] key = "baz.py" ->
           BuildFormula("baz", 10, <<Dep("foo", {Selector(">=", 20)})>>,
                        {})

Paths == {"foo.README", "share/doc/foo/README", "bin/foo", "bar.README", "foo-bar.README"}

\* os.path.dirname, relative to the prefix
Dirname(path) ==
    CASE path = "share/doc/foo/README" -> "share/doc/foo"
      [] path = "share/doc/foo" -> "share/doc"
      [] path = "share/doc" -> "share"
      [] path = "bin/foo" -> "bin"
      [] path = "share/man" -> "share"
      [] path = "lib/pkgconfig" -> "lib"
      [] OTHER -> ""

\* Environment.directories
Directories ==
    {"", "bin", "sbin", "include", "lib", "share", "share/man", "lib/pkgconfig", "tmp"}

\* The directories that lead to a path, the prefix included.
RECURSIVE Ancestors(_)
Ancestors(path) ==
    IF path = "" THEN {""} ELSE {Dirname(path)} \cup Ancestors(Dirname(path))

\* The content of a file: the package or the build that wrote it, and the
\* prefix its text names.  Absent is no file.
Absent == [by |-> "", prefix |-> ""]

Content(by, prefix) == [by |-> by, prefix |-> prefix]

EnvPrefix == "/env"

VARIABLES
    fs,             \* the files under the prefix: path -> content
    dirs,           \* the directories that exist, among the prefix and below
    meta,           \* Environment.meta['packages']: name -> package meta (a key)
    meta_file,      \* what prefix/.ipkg.meta holds: {m}, or {} when there is no file
    variables,      \* Environment.variables set by packages: name -> value
    env_pc,         \* "idle", "install" or "build"
    stack,          \* the calls of install in progress, the innermost last
    repository,     \* install and build: the repository argument, {} for None
    formula,        \* build: the formula, "" when no build is in progress
    build_pc,       \* build: the step to take next
    build_dir,      \* build: whether the build directory exists
    remove_build_dir,       \* build: remove_build_dir
    installed_dependencies, \* build: installed_dependencies
    files_before_install,   \* build: files_before_install
    package_files,  \* build: package_files
    ipkg_file,      \* build: the package file created, {} before it is
    env_outcome     \* how the last operation ended, and what it was given

env_vars ==
    <<fs, dirs, meta, meta_file, variables, env_pc, stack, repository, formula,
      build_pc, build_dir, remove_build_dir, installed_dependencies,
      files_before_install, package_files, ipkg_file, env_outcome>>

\* find_files(prefix)
find_files(files, saved) ==
    {f \in Paths : files[f] # Absent} \cup (IF saved # {} THEN {".ipkg.meta"} ELSE {})

\* os.listdir(directory) is empty
IsEmptyDir(files, directories, saved, directory) ==
    /\ \A f \in Paths : Dirname(f) = directory => files[f] = Absent
    /\ \A d \in directories : d # "" => Dirname(d) # directory
    /\ ~(directory = "" /\ saved # {})

\* The membership test that finds every dependency installed.
AlwaysInPackages(m, dependency) == TRUE

\* `key in self.meta['packages']` for a requirement string: the string is a
\* key when it is a name and nothing else.
InPackages(m, dependency) ==
    /\ dependency.platform = <<>>
    /\ dependency.sels = {}
    /\ dependency.name \in DOMAIN m

\* `package in self.meta['packages']` for a package object: the dictionary is
\* keyed by names and the object has the hash of its identity.
ObjectInPackages(m, key) == FALSE

\* repository[requirement]: the most recent of the packages of the repository
\* that satisfy the requirement, {} when there is none.
PackageRepository == PackageFiles

Resolve(repo, dependency) ==
    LET found == {k \in repo : satisfied_by(Requirement(dependency), MetaOf(k))}
    IN  {k \in found : \A o \in found :
            \/ MetaOf(o).version < MetaOf(k).version
            \/ MetaOf(o).version = MetaOf(k).version
               /\ MetaOf(o).revision <= MetaOf(k).revision}

\* Environment.render_arg
render_arg(arg) ==
    CASE arg = "%(env_dir)s" -> EnvPrefix
      [] OTHER -> arg

\* Environment.__add_package_envvars
add_package_envvars(vs, envvars) ==
    [n \in DOMAIN vs \cup {e[1] : e \in envvars} |->
        IF \E e \in envvars : e[1] = n
        THEN render_arg((CHOOSE e \in envvars : e[1] = n)[2])
        ELSE vs[n]]

\* rewrite_prefix, for the files install gives it.
rewrite_prefix(content, build_prefix, install_prefix) ==
    IF content.prefix = build_prefix THEN Content(content.by, install_prefix) ELSE content

\* install, lines 342-351: whether the prefix of the file is rewritten.
IsRewritten(path) == Dirname(path) \in {"bin", "sbin", "lib", "lib/pkgconfig"}

\* PackageFile.extract and the rewriting of prefixes, lines 338-351.
Extract(files, key) ==
    [f \in Paths |->
        IF f \in Range(MetaOf(key).files)
        THEN IF IsRewritten(f) /\ MetaOf(key).build_prefix # EnvPrefix
             THEN rewrite_prefix(Content(key, MetaOf(key).build_prefix),
                                 MetaOf(key).build_prefix, EnvPrefix)
             ELSE Content(key, MetaOf(key).build_prefix)
        ELSE files[f]]

ExtractDirs(directories, key) ==
    directories \cup UNION {Ancestors(f) : f \in Range(MetaOf(key).files)}

\* uninstall, lines 270-282: the files of the list from the i-th on.
RECURSIVE UninstallFiles(_, _, _, _, _)
UninstallFiles(files, directories, saved, list, i) ==
    LET Unlinked(unlinked, parent) ==
            UninstallFiles(unlinked,
                           IF IsEmptyDir(unlinked, directories, saved, parent)
                           THEN directories \ {parent}
                           ELSE directories,
                           saved, list, i + 1)
    IN  IF i > Len(list)
        THEN [fs |-> files, dirs |-> directories]
        ELSE IF list[i] \in Paths /\ files[list[i]] # Absent
        THEN Unlinked([files EXCEPT ![list[i]] = Absent], Dirname(list[i]))
        ELSE UninstallFiles(files, directories, saved, list, i + 1)

\* The packages whose dependencies name the package.
Dependents(m, name) ==
    {n \in DOMAIN m : \E i \in DOMAIN MetaOf(m[n]).dependencies :
                         MetaOf(m[n]).dependencies[i].name = name}

(***************************************************************************)
(* Environment.uninstall and Environment.install.                          *)
(*                                                                         *)
(* install calls itself for the dependencies of a package: a call is a     *)
(* frame of the stack, and a step handles one dependency of the innermost  *)
(* call or finishes it.  An exception leaves through every caller, none    *)
(* of which catches it.                                                    *)
(***************************************************************************)
NoDependency == Dep("", {})

\* The argument of install: the path of a package file, or a string that is
\* no path, which the repository resolves.
FileArg(key) == [kind |-> "file", key |-> key, dependency |-> NoDependency]

RequirementArg(dependency) == [kind |-> "requirement", key |-> "", dependency |-> dependency]

NameArg(name) == [kind |-> "name", key |-> name, dependency |-> NoDependency]

FormulaArg(key) == [kind |-> "formula", key |-> key, dependency |-> NoDependency]

\* What the caller of an operation is given back, with what the operation was
\* given: its argument, the package it resolved to, and the files and the
\* packages of the environment when it was called.
EnvOutcome(op, arg, key, status, exception, before) ==
    [op |-> op, arg |-> arg, package |-> key, status |-> status,
     exception |-> exception, before |-> before]

Snapshot == [fs |-> fs, packages |-> meta]

NoSnapshot == [fs |-> [f \in Paths |-> Absent], packages |-> EmptyMap]

NoEnvOutcome == EnvOutcome("", NameArg(""), "", "", "", NoSnapshot)

\* uninstall, lines 262-288, for a name.
uninstall(files, directories, m, saved, name) ==
    LET Popped(removed, popped) ==
            [ok |-> TRUE, fs |-> removed.fs, dirs |-> removed.dirs,
             meta |-> popped, meta_file |-> {popped}]
    IN  IF name \notin DOMAIN m
        THEN [ok |-> FALSE, fs |-> files, dirs |-> directories, meta |-> m,
              meta_file |-> saved]
        ELSE Popped(UninstallFiles(files, directories, saved, MetaOf(m[name]).files, 1),
                    [n \in DOMAIN m \ {name} |-> m[n]])

\* The comparison that finds no installed package to be the one given.
NeverSameVersionRevision(installed_package, package) == FALSE

\* install, lines 318-319
SameVersionRevision(installed_package, package) ==
    /\ installed_package.version = package.version
    /\ installed_package.revision = package.revision

\* install, lines 314-329: the package is installed already, in the same
\* version and revision ("return", line 323) or in another (uninstall is
\* called with the package), or is not ("install": on to line 331).
AlreadyInstalled(m, key) ==
    IF MetaOf(key).name \in DOMAIN m
    THEN IF SameVersionRevision(MetaOf(m[MetaOf(key).name]), MetaOf(key))
         THEN [status |-> "return", exception |-> "", key |-> key]
         ELSE IF ObjectInPackages(m, key)
         THEN [status |-> "install", exception |-> "", key |-> key]
         ELSE [status |-> "raise", exception |-> "NotInstalled", key |-> key]
    ELSE [status |-> "install", exception |-> "", key |-> key]

\* install, lines 295-312: from the argument to the package.
Enter(m, arg, repo) ==
    LET Found(found) ==
            IF found = {}
            THEN [status |-> "raise", exception |-> "RequirementNotFound", key |-> ""]
            ELSE AlreadyInstalled(m, CHOOSE k \in found : TRUE)
    IN  IF arg.kind = "file"
        THEN AlreadyInstalled(m, arg.key)
        ELSE IF repo = {}
        THEN [status |-> "raise", exception |-> "IpkgException", key |-> ""]
        ELSE Found(Resolve(repo, arg.dependency))

Frame(key) == [package |-> key, dependency |-> 1]

EnvIdle == env_pc = "idle"

build_vars ==
    <<formula, build_pc, build_dir, remove_build_dir, installed_dependencies,
      files_before_install, package_files, ipkg_file>>

env_state == <<fs, dirs, meta, meta_file, variables>>

\* The depth at which the interpreter stops a recursion, in calls of install.
MaxDepth == 4

Uninstall(name) ==
    /\ EnvIdle
    /\ \E r \in {uninstall(fs, dirs, meta, meta_file, name)} :
          /\ fs' = r.fs
          /\ dirs' = r.dirs
          /\ meta' = r.meta
          /\ meta_file' = r.meta_file
          /\ env_outcome' =
               EnvOutcome("uninstall", NameArg(name),
                          IF r.ok THEN meta[name] ELSE "",
                          IF r.ok THEN "returned" ELSE "raised",
                          IF r.ok THEN "" ELSE "NotInstalled", Snapshot)
    /\ UNCHANGED <<variables, env_pc, stack, repository, build_vars>>

\* build ends: its caller is given the outcome, and the values build held
\* are no more.
BuildEnds(status, exception) ==
    /\ env_pc' = "idle"
    /\ formula' = ""
    /\ repository' = {}
    /\ build_pc' = [step |-> "", dependency |-> 0]
    /\ remove_build_dir' = TRUE
    /\ installed_dependencies' = <<>>
    /\ files_before_install' = {}
    /\ package_files' = {}
    /\ ipkg_file' = {}
    /\ env_outcome' = [env_outcome EXCEPT !.status = status,
                                          !.exception = exception]

\* A call of install ends, and the caller of the outermost call is given the
\* outcome: the build in progress, or the program.
InstallEnds(status, exception) ==
    /\ stack' = <<>>
    /\ IF formula = ""
       THEN /\ env_pc' = "idle"
            /\ repository' = {}
            /\ env_outcome' = [env_outcome EXCEPT !.status = status,
                                                  !.exception = exception]
            /\ UNCHANGED build_vars
       ELSE IF status = "returned"
       THEN /\ env_pc' = "build"
            /\ installed_dependencies' =
                 Append(installed_dependencies,
                        FormulaOf(formula).dependencies[build_pc.dependency])
            /\ build_pc' = [build_pc EXCEPT !.dependency = @ + 1]
            /\ UNCHANGED <<env_outcome, repository, formula, build_dir,
                           remove_build_dir, files_before_install, package_files,
                           ipkg_file>>
       ELSE /\ BuildEnds("raised", exception)
            /\ build_dir' = build_dir

InstallBegin(arg, repo) ==
    /\ EnvIdle
    /\ \E r \in {Enter(meta, arg, repo)} :
          IF r.status = "install"
          THEN /\ env_pc' = "install"
               /\ stack' = <<Frame(r.key)>>
               /\ repository' = repo
               /\ env_outcome' = EnvOutcome("install", arg, r.key, "running", "",
                                            Snapshot)
          ELSE /\ env_outcome' =
                    EnvOutcome("install", arg, r.key,
                               IF r.status = "raise" THEN "raised" ELSE "returned",
                               r.exception, Snapshot)
               /\ UNCHANGED <<env_pc, stack, repository>>
    /\ UNCHANGED <<env_state, build_vars>>

\* install, lines 332-336: one dependency of the innermost call.
InstallDependency ==
    /\ env_pc = "install"
    /\ \E top \in {stack[Len(stack)]} :
          /\ top.dependency <= Len(MetaOf(top.package).dependencies)
          /\ \E dependency \in {MetaOf(top.package).dependencies[top.dependency]} :
             \E advanced \in {[stack EXCEPT ![Len(stack)].dependency = @ + 1]} :
             \E r \in {Enter(meta, RequirementArg(dependency), repository)} :
                IF InPackages(meta, dependency) \/ r.status = "return"
                THEN /\ stack' = advanced
                     /\ UNCHANGED <<env_pc, repository, env_outcome, build_vars>>
                ELSE IF r.status = "raise"
                THEN InstallEnds("raised", r.exception)
                ELSE IF Len(stack) >= MaxDepth
                THEN InstallEnds("raised", "RuntimeError")
                ELSE /\ stack' = Append(advanced, Frame(r.key))
                     /\ UNCHANGED <<env_pc, repository, env_outcome, build_vars>>
    /\ UNCHANGED env_state

\* install, lines 338-361: the innermost call has its dependencies.
InstallFinish ==
    /\ env_pc = "install"
    /\ \E top \in {stack[Len(stack)]} :
       \E package \in {MetaOf(top.package)} :
       \E recorded \in {Put(meta, package.name, top.package)} :
          /\ top.dependency > Len(package.dependencies)
          /\ fs' = Extract(fs, top.package)
          /\ dirs' = ExtractDirs(dirs, top.package)
          /\ meta' = recorded
          /\ meta_file' = {recorded}
          /\ variables' = IF package.envvars # {}
                          THEN add_package_envvars(variables, package.envvars)
                          ELSE variables
          /\ IF Len(stack) > 1
             THEN /\ stack' = SubSeq(stack, 1, Len(stack) - 1)
                  /\ UNCHANGED <<env_pc, repository, env_outcome, build_vars>>
             ELSE InstallEnds("returned", "")

(***************************************************************************)
(* ipkg/build.py: Formula.build, in an environment the formula was given.  *)
(***************************************************************************)
BuildStep(step) == env_pc = "build" /\ build_pc.step = step

BuildPc(step, dependency) == [step |-> step, dependency |-> dependency]

\* An exception leaves build: nothing catches it.
BuildRaise(exception) ==
    /\ BuildEnds("raised", exception)
    /\ build_dir' = build_dir

\* build, lines 145-158
BuildBegin(key, remove, repo) ==
    /\ EnvIdle
    /\ env_pc' = "build"
    /\ formula' = key
    /\ repository' = repo
    /\ installed_dependencies' = <<>>
    /\ build_dir' = TRUE
    /\ remove_build_dir' = remove
    /\ build_pc' = BuildPc("dependencies", 1)
    /\ env_outcome' = EnvOutcome("build", FormulaArg(key), "", "running", "", Snapshot)
    /\ UNCHANGED <<env_state, stack, files_before_install, package_files, ipkg_file>>

\* What a step of build leaves as it is when build goes on to the next.
BuildGoesOn ==
    UNCHANGED <<env_pc, formula, repository, build_dir, remove_build_dir,
                files_before_install, package_files, ipkg_file, env_outcome>>

\* build, lines 161-167: one dependency of the formula.
BuildDependency ==
    /\ BuildStep("dependencies")
    /\ build_pc.dependency <= Len(FormulaOf(formula).dependencies)
    /\ \E dependency \in {FormulaOf(formula).dependencies[build_pc.dependency]} :
       \E r \in {Enter(meta, RequirementArg(dependency), repository)} :
          IF InPackages(meta, dependency)
          THEN /\ build_pc' = [build_pc EXCEPT !.dependency = @ + 1]
               /\ UNCHANGED <<stack, installed_dependencies>>
               /\ BuildGoesOn
          ELSE IF r.status = "return"
          THEN /\ build_pc' = [build_pc EXCEPT !.dependency = @ + 1]
               /\ installed_dependencies' = Append(installed_dependencies, dependency)
               /\ UNCHANGED stack
               /\ BuildGoesOn
          ELSE IF r.status = "raise"
          THEN /\ BuildRaise(r.exception)
               /\ UNCHANGED stack
          ELSE /\ env_pc' = "install"
               /\ stack' = <<Frame(r.key)>>
               /\ UNCHANGED <<build_pc, formula, repository, remove_build_dir,
                              installed_dependencies, files_before_install,
                              package_files, ipkg_file, env_outcome, build_dir>>
    /\ UNCHANGED env_state

\* build, lines 170-182: the sources are fetched, checked and unpacked in the
\* build directory and the patches applied, or one of these fails.
BuildSources(ok) ==
    /\ BuildStep("dependencies")
    /\ build_pc.dependency > Len(FormulaOf(formula).dependencies)
    /\ IF ok
       THEN /\ build_pc' = BuildPc("install", 0)
            /\ UNCHANGED <<env_pc, formula, repository, build_dir, remove_build_dir,
                           installed_dependencies, files_before_install,
                           package_files, ipkg_file, env_outcome>>
       ELSE BuildRaise("ExecutionFailed")
    /\ UNCHANGED <<env_state, stack>>

\* What the install step of the formula writes.
Installed(files, key, written) ==
    [f \in Paths |-> IF f \in written THEN Content(key, EnvPrefix) ELSE files[f]]

\* build, lines 186-189: the install step writes its files, or some of them
\* and fails.
BuildInstall(written, ok) ==
    /\ BuildStep("install")
    /\ written \subseteq FormulaOf(formula).installs
    /\ ok => written = FormulaOf(formula).installs
    /\ fs' = Installed(fs, formula, written)
    /\ dirs' = dirs \cup UNION {Ancestors(f) : f \in written}
    /\ IF ok
       THEN /\ files_before_install' = find_files(fs, meta_file)
            /\ build_pc' = BuildPc("package", 0)
            /\ UNCHANGED <<env_pc, formula, repository, build_dir, remove_build_dir,
                           installed_dependencies, package_files, ipkg_file,
                           env_outcome>>
       ELSE BuildRaise("ExecutionFailed")
    /\ UNCHANGED <<meta, meta_file, variables, stack>>

\* The files of the package when the snapshot is not subtracted.
EveryFile(files_after_install, before_install) == files_after_install

\* build, line 192
NewFiles(files_after_install, before_install) == files_after_install \ before_install

\* __create_package: the meta data of the package file.
Package(key, files) ==
    [name |-> FormulaOf(key).name, version |-> FormulaOf(key).version,
     revision |-> FormulaOf(key).revision,
     dependencies |-> FormulaOf(key).dependencies,
     files |-> files, build_prefix |-> EnvPrefix]

\* build, lines 192-195: the package file is created, or cannot be written.
BuildPackage(ok) ==
    /\ BuildStep("package")
    /\ IF ok
       THEN /\ package_files' = NewFiles(find_files(fs, meta_file), files_before_install)
            /\ ipkg_file' = {Package(formula, package_files')}
            /\ build_pc' = BuildPc("cleanup", 0)
            /\ UNCHANGED <<env_pc, formula, repository, build_dir, remove_build_dir,
                           installed_dependencies, files_before_install, env_outcome>>
       ELSE BuildRaise("IOError")
    /\ UNCHANGED <<env_state, stack>>

\* build, lines 203-206: the dependencies from the i-th on are uninstalled.
RECURSIVE UninstallDependencies(_, _, _)
UninstallDependencies(state, dependencies, i) ==
    IF i > Len(dependencies)
    THEN state
    ELSE IF ~InPackages(state.meta, dependencies[i])
    THEN [state EXCEPT !.ok = FALSE]
    ELSE UninstallDependencies(
             uninstall(state.fs, state.dirs, state.meta, state.meta_file,
                       dependencies[i].name),
             dependencies, i + 1)

\* build, lines 199-201
Unlink(files, paths) == [f \in Paths |-> IF f \in paths THEN Absent ELSE files[f]]

\* build, lines 203-205: the dependencies build uninstalls when it ends.
Uninstalled(dependencies, installed) == dependencies

\* build, lines 198-214
BuildCleanup ==
    /\ BuildStep("cleanup")
    /\ \E unlinked \in {[ok |-> TRUE, fs |-> Unlink(fs, package_files), dirs |-> dirs,
                         meta |-> meta, meta_file |-> meta_file]} :
       \E r \in {UninstallDependencies(
                    unlinked,
                    Uninstalled(FormulaOf(formula).dependencies,
                                installed_dependencies), 1)} :
          /\ fs' = r.fs
          /\ dirs' = r.dirs
          /\ meta' = r.meta
          /\ meta_file' = r.meta_file
          /\ IF r.ok
             THEN /\ BuildEnds("returned", "")
                  /\ build_dir' = (build_dir /\ ~remove_build_dir)
             ELSE BuildRaise("NotInstalled")
    /\ UNCHANGED <<variables, stack>>

(***************************************************************************)
(* The environment, and the program that uses it.                          *)
(***************************************************************************)
EnvInit ==
    /\ fs = [f \in Paths |-> Absent]
    /\ dirs \in {{}, Directories}
    /\ meta = EmptyMap
    /\ meta_file = {}
    /\ variables = EmptyMap
    /\ env_pc = "idle"
    /\ stack = <<>>
    /\ repository = {}
    /\ formula = ""
    /\ build_pc = BuildPc("", 0)
    /\ build_dir = FALSE
    /\ remove_build_dir = TRUE
    /\ installed_dependencies = <<>>
    /\ files_before_install = {}
    /\ package_files = {}
    /\ ipkg_file = {}
    /\ env_outcome = NoEnvOutcome

InstallArgs ==
    {FileArg(k) : k \in PackageFiles \ {"cyc-b-1.0-1"}}
        \cup {RequirementArg(Dep("foo-bar", {})), RequirementArg(Dep("qux", {}))}

UninstallArgs == {"foo", "bar", "foo-bar", "clash"}

(***************************************************************************)
(* ipkg/requirements.py: a program that makes requirements of texts, adds  *)
(* them and asks whether an object satisfies them.                         *)
(***************************************************************************)
VARIABLES
    req_op,      \* the operation the program called last, "" before any
    req_args,    \* what it was given
    req_result   \* what it gave back: [ok, err, value]

req_vars == <<req_op, req_args, req_result>>

\* The highest version a text of requirement names; 0 is the version "0".
MaxVersion == 2

\* The number of selectors a text of requirement has at most.
MaxSelectors == 3

AllSelectors ==
    {Selector(op, ver) : op \in {"==", "!=", ">", ">=", "<", "<="},
                         ver \in 0..MaxVersion}

\* The sets of n selectors at most.
RECURSIVE SelectorSets(_)
SelectorSets(n) ==
    IF n = 0
    THEN {{}}
    ELSE LET Grown(smaller) ==
                 smaller \cup {S \cup {x} : S \in smaller, x \in AllSelectors}
         IN  Grown(SelectorSets(n - 1))

\* The texts the program makes requirements of: "[platform:]foo" followed by
\* selectors.
RequirementTexts ==
    {[platform |-> p, name |-> "foo", sels |-> sels] :
        p \in {<<>>, AnyPlatform}, sels \in SelectorSets(MaxSelectors)}

\* The operands of the sums: "foo" followed by one selector at most.
OperandTexts == {Dep("foo", sels) : sels \in SelectorSets(1)}

\* The objects the program asks about.
Candidates ==
    {[platform |-> p, name |-> n, version |-> v] :
        p \in {AnyPlatform, CurrentPlatform, ForeignPlatform},
        n \in {"foo", "bar"}, v \in 0..MaxVersion}

ReqResult(ok, err, value) == [ok |-> ok, err |-> err, value |-> value]

\* Requirement(text), lines 39-48: the requirement, or the exception of parse.
NewRequirement(decl) ==
    LET Made(parsed) ==
            IF parsed.ok
            THEN ReqResult(TRUE, "",
                           <<[platform |-> IF decl.platform = <<>>
                                           THEN CurrentPlatform ELSE decl.platform,
                              name |-> decl.name,
                              versions |-> parsed.versions]>>)
            ELSE ReqResult(FALSE, parsed.err, <<>>)
    IN  Made(parse(VersionsStr(decl.sels)))

\* x + y for the values of two expressions, either of which may have raised.
Plus(x, y) ==
    LET Sum(r) == IF r.ok THEN ReqResult(TRUE, "", <<r.req>>)
                  ELSE ReqResult(FALSE, r.err, <<>>)
    IN  IF ~x.ok THEN x
        ELSE IF ~y.ok THEN y
        ELSE Sum(RequirementAdd(x.value[1], y.value[1]))

ReqInit ==
    /\ req_op = ""
    /\ req_args = <<>>
    /\ req_result = ReqResult(TRUE, "", <<>>)

\* Each operation is a function of what it is given and leaves nothing
\* behind: the program calls one, once, while ReqIdle.
ReqIdle == req_op = ""

\* The program makes a requirement of a text.
MakeRequirement(decl) ==
    /\ req_op' = "Requirement"
    /\ req_args' = <<decl>>
    /\ req_result' = NewRequirement(decl)

\* The program makes three requirements and adds them: a + b, b + a,
\* (a + b) + c and a + (b + c).
AddRequirements(a, b, c) ==
    /\ req_op' = "add"
    /\ req_args' = <<a, b, c>>
    /\ \E ra \in {NewRequirement(a)} : \E rb \in {NewRequirement(b)} :
       \E rc \in {NewRequirement(c)} :
          req_result' =
             ReqResult(TRUE, "",
                       <<Plus(ra, rb), Plus(rb, ra),
                         Plus(Plus(ra, rb), rc), Plus(ra, Plus(rb, rc))>>)

\* The program asks Requirement(text).satisfied_by(candidate).
AskSatisfiedBy(decl, candidate) ==
    /\ req_op' = "satisfied_by"
    /\ req_args' = <<decl, candidate>>
    /\ \E r \in {NewRequirement(decl)} :
          req_result' =
             IF r.ok
             THEN ReqResult(TRUE, "", <<satisfied_by(r.value[1], candidate)>>)
             ELSE r

(***************************************************************************)
(* ipkg/repositories.py: PackageRepository.find                            *)
(***************************************************************************)
\* A package file of a repository,
\* base/<name>/<name>-<version>-<revision>-<platform>.ipkg
PlatformFile(name, version, revision, platform) ==
    [name |-> name, version |-> version, revision |-> revision,
     platform |-> platform]

\* The package files a repository may hold.
PlatformFiles ==
    {PlatformFile("foo", 1, 1, CurrentPlatform),
     PlatformFile("foo", 1, 2, CurrentPlatform),
     PlatformFile("foo", 2, 1, CurrentPlatform),
     PlatformFile("foo", 2, 1, ForeignPlatform),
     PlatformFile("bar", 1, 1, CurrentPlatform)}

\* The requirements the program looks up: a name and one selector at most.
LookupTexts == {Dep(n, sels) : n \in {"foo", "qux"}, sels \in SelectorSets(1)}

\* repository.json of a repository that holds the files: name, version and
\* revision are its keys, the platform of a file is no key.
RepositoryMeta(files) ==
    [n \in {f.name : f \in files} |->
        [v \in {f.version : f \in {g \in files : g.name = n}} |->
            {f.revision : f \in {g \in files : g.name = n /\ g.version = v}}]]

\* sorted(..., reverse=True)
RECURSIVE Descending(_)
Descending(S) ==
    IF S = {} THEN <<>> ELSE <<MaxOf(S)>> \o Descending(S \ {MaxOf(S)})

\* PackageRepository.__versions
repository_versions(idx, name) ==
    IF name \in DOMAIN idx THEN Descending(DOMAIN idx[name]) ELSE <<>>

\* PackageRepository.__revisions
repository_revisions(idx, name, version) ==
    IF name \in DOMAIN idx /\ version \in DOMAIN idx[name]
    THEN Descending(idx[name][version])
    ELSE <<>>

\* PackageRequirement.is_satisfied_by of a MetaPackage of name, version and
\* revision: the package has the name and its version satisfies the
\* selectors.  A MetaPackage has no platform.
is_satisfied_by(requirement, name, version) ==
    name = requirement.name /\ satisfied_by_version(requirement, version)

\* PackageRepository.__match, the loops from the i-th version and the j-th
\* revision on.
RECURSIVE repository_match(_, _, _, _)
repository_match(idx, requirement, i, j) ==
    LET versions == repository_versions(idx, requirement.name)
        Revisions(version) ==
            IF j > Len(repository_revisions(idx, requirement.name, version))
            THEN repository_match(idx, requirement, i + 1, 1)
            ELSE IF is_satisfied_by(requirement, requirement.name, version)
                 THEN ReqResult(TRUE, "",
                          <<version,
                            repository_revisions(idx, requirement.name, version)[j]>>)
                 ELSE repository_match(idx, requirement, i, j + 1)
    IN  IF i > Len(versions)
        THEN ReqResult(FALSE, "RequirementNotFound", <<>>)
        ELSE Revisions(versions[i])

\* PackageRepository.__make_package_file: PackageFile of a path that is no
\* file raises.
make_package_file(files, name, version, revision, platform) ==
    IF PlatformFile(name, version, revision, platform) \in files
    THEN ReqResult(TRUE, "", <<PlatformFile(name, version, revision, platform)>>)
    ELSE ReqResult(FALSE, "IOError", <<>>)

\* PackageRepository.find
repository_find(files, decl, platform) ==
    LET Made(m) ==
            IF m.ok
            THEN make_package_file(files, decl.name, m.value[1], m.value[2], platform)
            ELSE m
    IN  Made(repository_match(RepositoryMeta(files), Requirement(decl), 1, 1))

\* repo.find(requirement, platform) of a repository that holds the files.
Find(files, decl, platform) ==
    /\ req_op' = "find"
    /\ req_args' = <<files, decl, platform>>
    /\ req_result' = repository_find(files, decl, platform)

(***************************************************************************)
(* ipkg/files/backends: BaseFile.verify_checksum, and File.open of         *)
(* ipkg/build.py                                                           *)
(***************************************************************************)
\* The longest content of a file, in bytes.
MaxBytes == 3

\* The contents a file may have: the sequences of the bytes 1 and 2.
RECURSIVE Contents(_)
Contents(n) ==
    IF n = 0
    THEN {<<>>}
    ELSE Contents(n - 1)
            \cup {Append(c, b) : c \in {d \in Contents(n - 1) : Len(d) = n - 1},
                                 b \in {1, 2}}

\* hash_obj.update(file_content); hash_obj.hexdigest(): a digest of the
\* bytes and of their places, which two contents may share.
RECURSIVE Digest(_)
Digest(bytes) ==
    IF bytes = <<>>
    THEN 1
    ELSE (3 * Digest(SubSeq(bytes, 1, Len(bytes) - 1)) + bytes[Len(bytes)]) % 5

\* What a File may declare: {} is no hash (None), {h} the digest h.
Hashes == {{}} \cup {{h} : h \in 0..4}

\* The file object of a backend: the content and the read position.
Stream(content, position) == [content |-> content, position |-> position]

\* The seek that leaves the position where read left it.
no_seek(stream, position) == stream

\* LocalFile.seek
seek(stream, position) == Stream(stream.content, position)

\* LocalFile.tell
tell(stream) == stream.position

\* LocalFile.read(): the bytes from the position to the end, and the stream
\* at its end.
read(stream) ==
    [data |-> SubSeq(stream.content, stream.position + 1, Len(stream.content)),
     stream |-> Stream(stream.content, Len(stream.content))]

\* BaseFile.verify_checksum, lines 31-52: how it ends, what it hashed, and
\* the stream it leaves.
verify_checksum(stream, expected_hash) ==
    LET Checked(r) ==
            IF Digest(r.data) \notin expected_hash
            THEN ReqResult(FALSE, "InvalidChecksum",
                           <<seek(r.stream, tell(stream)), <<r.data>>>>)
            ELSE ReqResult(TRUE, "", <<seek(r.stream, tell(stream)), <<r.data>>>>)
    IN  IF expected_hash = {}
        THEN ReqResult(TRUE, "", <<stream, <<>>>>)
        ELSE Checked(read(stream))

\* File.open, build.py lines 370-379: vopen gives the file object of the
\* backend, at the beginning of the content.
file_open(content, expected_hash) ==
    verify_checksum(Stream(content, 0), expected_hash)

\* File(url, sha256=...).open() for a url that has the content.
FileOpen(content, expected_hash) ==
    /\ req_op' = "File.open"
    /\ req_args' = <<content, 0, expected_hash>>
    /\ req_result' = file_open(content, expected_hash)

\* verify_checksum() of a file object the program has read up to a position.
VerifyChecksum(content, position, expected_hash) ==
    /\ req_op' = "verify_checksum"
    /\ req_args' = <<content, position, expected_hash>>
    /\ req_result' = verify_checksum(Stream(content, position), expected_hash)

(***************************************************************************)
(* ipkg/mixins.py: NameVersionRevisionComparable.__lt__ and __gt__         *)
(***************************************************************************)
\* The package-like objects the program compares.
PackageLikes ==
    {[name |-> n, version |-> v, revision |-> r] :
        n \in {"foo", "bar"}, v \in 1..MaxVersion, r \in 1..2}

\* The names the module mixins.py has: its only import is
\* `from .utils import is_package_like, parse_package_spec`, and neither
\* operator nor parse_version is defined in it.
ModuleNames == {"is_package_like", "parse_package_spec"}

\* cmp_func, lines 51-52: op of the parsed versions.
cmp_func(op, a, b) == IF op = "lt" THEN a < b ELSE a > b

\* __compare, lines 49-61, for a package-like object.
compare(self, other, op) ==
    IF self.name = other.name
    THEN IF self.version = other.version
         THEN cmp_func(op, self.version, other.version)
         ELSE cmp_func(op, self.revision, other.revision)
    ELSE FALSE

\* __lt__ and __gt__, lines 43-47: operator.lt, or operator.gt, is
\* evaluated for the call of __compare, and the name is looked up in the
\* module.
rich_compare(self, other, op) ==
    IF "operator" \in ModuleNames
    THEN ReqResult(TRUE, "", <<compare(self, other, op)>>)
    ELSE ReqResult(FALSE, "NameError", <<>>)

\* a < b, or a > b, of two package-like objects.
Compare(a, b, op) ==
    /\ req_op' = op
    /\ req_args' = <<a, b>>
    /\ req_result' = rich_compare(a, b, op)

(***************************************************************************)
(* ipkg/prefix_rewriters.py: rewrite_text_first_match                      *)
(***************************************************************************)
\* The number of lines a text file has at most.
MaxLines == 3

\* A line of a text file: what it begins with, and the prefix its text
\* names ("" where it names none).
Line(start, names) == [start |-> start, names |-> names]

LineKinds ==
    {Line(start, names) : start \in {"prefix=", "libdir=", "Name:"},
                          names \in {"/build", "/env"}}

\* The text files of up to n lines.
RECURSIVE TextFiles(_)
TextFiles(n) ==
    IF n = 0
    THEN {<<>>}
    ELSE TextFiles(n - 1)
            \cup {Append(t, l) : t \in {u \in TextFiles(n - 1) : Len(u) = n - 1},
                                 l \in LineKinds}

\* line.replace(build_prefix, install_prefix)
replace(line, build_prefix, install_prefix) ==
    IF line.names = build_prefix THEN Line(line.start, install_prefix) ELSE line

\* The loop of rewrite_text_first_match, lines 45-55: written is what the
\* file opened with 'w' holds, lines what is yet to pop.  lines.pop(0) of an
\* empty list raises IndexError.
RECURSIVE first_match_loop(_, _, _, _, _)
first_match_loop(written, lines, line_start, build_prefix, install_prefix) ==
    IF lines = <<>>
    THEN ReqResult(FALSE, "IndexError", <<written>>)
    ELSE IF Head(lines).start = line_start
         THEN ReqResult(TRUE, "",
                        <<Append(written,
                                 replace(Head(lines), build_prefix, install_prefix))
                            \o Tail(lines)>>)
         ELSE first_match_loop(Append(written, Head(lines)), Tail(lines),
                               line_start, build_prefix, install_prefix)

\* rewrite_text_first_match, lines 37-55: how it ends and what the file holds.
rewrite_text_first_match(lines, line_start, build_prefix, install_prefix) ==
    first_match_loop(<<>>, lines, line_start, build_prefix, install_prefix)

\* rewrite_pkgconfig (line_start 'prefix=') or rewrite_libtool ('libdir=')
\* of a file that holds the lines, from the build prefix to that of the
\* environment.
RewriteFirstMatch(lines, line_start) ==
    /\ req_op' = "rewrite_text_first_match"
    /\ req_args' = <<lines, line_start>>
    /\ req_result' = rewrite_text_first_match(lines, line_start, "/build", "/env")

(***************************************************************************)
(* ipkg/repositories.py: LocalPackageRepository                            *)
(***************************************************************************)
\* A dependency string of a formula as parse_package_spec reads it: the
\* groups of PACKAGE_SPEC, name, version and revision, 0 for a group that the
\* string has not ("foo" is PackageSpec("foo", 0, 0), "foo==1.0:1" is
\* PackageSpec("foo", 10, 1)).
PackageSpec(name, version, revision) ==
    [name |-> name, version |-> version, revision |-> revision]

\* The string is a package name and nothing else.
IsBare(dependency) == dependency.version = 0 /\ dependency.revision = 0

\* A formula class of the formula repository.
Recipe(name, version, revision, dependencies) ==
    [name |-> name, version |-> version, revision |-> revision,
     dependencies |-> dependencies]

RecipeKeys == {"foo-1.0-1.py", "bar-1.0.py", "foo-bar-1.0-1.py", "baz-1.0.py", "pin-1.0.py"}

RecipeOf(key) ==
    CASE key = "foo-1.0-1.py" -> Recipe("foo", 10, 1, <<>>)
      [] key = "bar-1.0.py" -> Recipe("bar", 10, 1, <<>>)
      [] key = "foo-bar-1.0-1.py" ->
           Recipe("foo-bar", 10, 1, <<PackageSpec("foo", 0, 0), PackageSpec("bar", 0, 0)>>)
      [] key = "baz-1.0.py" -> Recipe("baz", 10, 1, <<PackageSpec("qux", 0, 0)>>)
      [] key = "pin-1.0.py" -> Recipe("pin", 10, 1, <<PackageSpec("foo", 10, 1)>>)

\* The formula repositories given to build_formulas, each in the orders
\* os.listdir may list it.
FormulaRepositories ==
    Perms({"foo-bar-1.0-1.py", "foo-1.0-1.py", "bar-1.0.py"})
        \cup Perms({"baz-1.0.py", "foo-1.0-1.py"})
        \cup Perms({"pin-1.0.py", "foo-1.0-1.py"})

\* A file under base/<dir>/: a package file of name, version and revision,
\* or a file that is no package file (readable = FALSE).
RepositoryFile(dir, name, version, revision, readable) ==
    [dir |-> dir, name |-> name, version |-> version, revision |-> revision,
     readable |-> readable]

\* The package file build makes of a formula, in package_dir.
ArtifactOf(recipe) ==
    RepositoryFile(recipe.name, recipe.name, recipe.version, recipe.revision, TRUE)

\* The files the program copies into the repository.
CopiedFiles ==
    {RepositoryFile("foo", "foo", 10, 1, TRUE),
     RepositoryFile("foo", "foo", 20, 1, TRUE),
     RepositoryFile("bar", "bar", 10, 1, TRUE),
     RepositoryFile("foo", "notes.txt", 0, 0, FALSE)}

\* The directories the program makes under base, and the plain files it
\* writes there.
PackageDirs == {"foo", "bar"}

TopLevelFiles == {"README"}

\* The environments given to build_formulas: none, one without packages and
\* one that has foo installed.
BuildEnvironments ==
    {[given |-> FALSE, packages |-> {}],
     [given |-> TRUE, packages |-> {}],
     [given |-> TRUE, packages |-> {"foo"}]}

VARIABLES
    base_dirs,       \* the directories base has
    base_files,      \* the plain files base has, repository.json apart
    artifacts,       \* the files under base/<dir>/
    index,           \* LocalPackageRepository.meta, the DictFile in memory
    index_file,      \* base/repository.json: {what it holds}, {} when absent
    repo_pc,         \* "idle" or "build_formulas"
    formulas,        \* build_formulas: formulas, the formulas yet to build
    repo_packages,   \* build_formulas: repo_packages
    built_packages,  \* build_formulas: built_packages
    build_env,       \* build_formulas: environment, and its packages
    build_calls,     \* the formulas build_formula was called with, in order
    missing_logged,  \* the formulas 'Missing dependency' was logged for
    repo_ops,        \* the number of operations the program has begun
    repo_outcome     \* the last operation and how it ended

repo_vars ==
    <<base_dirs, base_files, artifacts, index, index_file, repo_pc, formulas,
      repo_packages, built_packages, build_env, build_calls, missing_logged,
      repo_ops, repo_outcome>>

\* The number of operations the program begins: changes under base and
\* calls of the repository.
MaxRepoOps == 5

\* The number of operations the program begins before it has the formulas of
\* a formula repository built, that call included.
MaxBuildOps == 4

RepoOutcome(op, status, exception, result) ==
    [op |-> op, status |-> status, exception |-> exception, result |-> result]

\* package_meta of add: the meta of the package file and its checksum, which
\* stands for the bytes of the file.
IndexEntry(file) ==
    [name |-> file.name, version |-> file.version, revision |-> file.revision,
     checksum |-> <<"sha256", file.dir, file.name, file.version, file.revision>>]

\* LocalPackageRepository.add of a package file, lines 244-259
repository_add(idx, file) ==
    LET Versions(with_name) ==
            IF file.version \in DOMAIN with_name[file.name]
            THEN with_name[file.name]
            ELSE Put(with_name[file.name], file.version, EmptyMap)
        Revisions(with_name, versions) ==
            Put(with_name, file.name,
                Put(versions, file.version,
                    Put(versions[file.version], file.revision, IndexEntry(file))))
        Named(with_name) == Revisions(with_name, Versions(with_name))
    IN  Named(IF file.name \in DOMAIN idx THEN idx ELSE Put(idx, file.name, EmptyMap))

\* The entries of the index.
EntriesOf(idx) ==
    UNION {UNION {{idx[n][v][r] : r \in DOMAIN idx[n][v]} : v \in DOMAIN idx[n]} :
           n \in DOMAIN idx}

\* DictFile.clear: the file is removed and the dict emptied where the file
\* exists, and nothing is done where it does not.
clear(idx, file) == IF file # {} THEN EmptyMap ELSE idx

\* DictFile.reload, for a new DictFile
reload(file) == IF file = {} THEN EmptyMap ELSE CHOOSE idx \in file : TRUE

\* update_metadata, lines 133-141: the files of a package directory, in the
\* order os.listdir gives them.
RECURSIVE AddFiles(_, _, _)
AddFiles(idx, files, i) ==
    IF i > Len(files)
    THEN [ok |-> TRUE, idx |-> idx]
    ELSE IF files[i].readable
         THEN AddFiles(repository_add(idx, files[i]), files, i + 1)
         ELSE [ok |-> FALSE, idx |-> idx]

\* update_metadata, lines 116-145: the names under base from the i-th on.
RECURSIVE UpdateNames(_, _, _, _, _)
UpdateNames(idx, names, i, directories, orders) ==
    LET Popped(added, name) ==
            IF DOMAIN added[name] = {}
            THEN [n \in DOMAIN added \ {name} |-> added[n]]
            ELSE added
        Listed(r, name) ==
            IF r.ok
            THEN UpdateNames(Popped(r.idx, name), names, i + 1, directories, orders)
            ELSE r
        Keyed(with_name, name) ==
            IF name \in directories
            THEN Listed(AddFiles(with_name, orders[name], 1), name)
            ELSE UpdateNames(with_name, names, i + 1, directories, orders)
    IN  IF i > Len(names)
        THEN [ok |-> TRUE, idx |-> idx]
        ELSE Keyed(IF names[i] \in DOMAIN idx THEN idx ELSE Put(idx, names[i], EmptyMap),
                   names[i])

\* LocalPackageRepository.update_metadata.  ok = FALSE where a file under a
\* package directory is no package file: PackageFile raises, and the index
\* is left as it was then.
update_metadata(idx, file, names, directories, orders) ==
    UpdateNames(clear(idx, file), names, 1, directories, orders)

\* `dependency in environment.packages`: InstalledPackage.__eq__ compares
\* the name of the package with the whole string.
InEnvironment(packages, dependency) ==
    IsBare(dependency) /\ dependency.name \in packages

\* NameVersionRevisionComparable.__eq__ of a formula and a string: the
\* groups of the parsed string are all there, None where the string has not
\* the group, so the version and the revision are compared always.
FormulaEq(recipe, dependency) ==
    IF dependency.name = recipe.name
    THEN IF dependency.version = recipe.version
         THEN dependency.revision = recipe.revision
         ELSE FALSE
    ELSE FALSE

\* The dependency names this name, version and revision: the name is the
\* same, and so are the version and the revision where the string has them.
Names(dependency, thing) ==
    /\ dependency.name = thing.name
    /\ dependency.version \in {0, thing.version}
    /\ dependency.revision \in {0, thing.revision}

\* The packages of the index that the dependency names.
Found(idx, dependency) == {e \in EntriesOf(idx) : Names(dependency, e)}

\* `formula_cls not in repo_packages`
IsBuilt(idx, recipe) ==
    \E e \in EntriesOf(idx) :
        /\ e.name = recipe.name
        /\ e.version = recipe.version
        /\ e.revision = recipe.revision

\* `dependency in built_packages`: built_packages holds the paths build
\* returned, and no path is a dependency string.
InBuiltPackages(built, dependency) == FALSE

\* build, lines 161-167: the dependencies from the i-th on are installed in
\* the environment from the repository where they are not installed.
RECURSIVE install_dependencies(_, _, _, _)
install_dependencies(deps, i, packages, idx) ==
    IF i > Len(deps)
    THEN [ok |-> TRUE, packages |-> packages]
    ELSE IF InEnvironment(packages, deps[i])
         THEN install_dependencies(deps, i + 1, packages, idx)
         ELSE IF Found(idx, deps[i]) # {}
              THEN install_dependencies(deps, i + 1, packages \cup {deps[i].name}, idx)
              ELSE [ok |-> FALSE, packages |-> packages]

\* build, lines 203-206: the dependencies from the i-th on are uninstalled;
\* uninstall raises NotInstalled where the string is no key of the packages.
RECURSIVE uninstall_dependencies(_, _, _)
uninstall_dependencies(deps, i, packages) ==
    IF i > Len(deps)
    THEN [ok |-> TRUE, packages |-> packages]
    ELSE IF InEnvironment(packages, deps[i])
         THEN uninstall_dependencies(deps, i + 1, packages \ {deps[i].name})
         ELSE [ok |-> FALSE, packages |-> packages]

\* Formula.build as build_formulas sees it: the package file it creates in
\* package_dir, the packages of the environment when it ends, and how it
\* ends.
formula_build(recipe, packages, idx) ==
    LET Built(status, exception, left, created) ==
            [status |-> status, exception |-> exception, packages |-> left,
             created |-> created]
        Cleaned(c) ==
            IF c.ok
            THEN Built("returned", "", c.packages, {ArtifactOf(recipe)})
            ELSE Built("raised", "NotInstalled", c.packages, {ArtifactOf(recipe)})
        WithDependencies(r) ==
            IF r.ok
            THEN Cleaned(uninstall_dependencies(recipe.dependencies, 1, r.packages))
            ELSE Built("raised", "RequirementNotFound", r.packages, {})
    IN  WithDependencies(install_dependencies(recipe.dependencies, 1, packages, idx))

\* build_formulas, lines 184-205: what the loop over the dependencies of the
\* formula decides, from the i-th dependency on.
RECURSIVE scan_dependencies(_, _, _, _, _, _)
scan_dependencies(deps, i, queued, env, snapshot, built) ==
    IF i > Len(deps)
    THEN "build"
    ELSE IF \E j \in DOMAIN queued : FormulaEq(RecipeOf(queued[j]), deps[i])
         THEN "later"
         ELSE IF \/ env.given /\ InEnvironment(env.packages, deps[i])
                 \/ Found(snapshot, deps[i]) # {}
                 \/ InBuiltPackages(built, deps[i])
              THEN scan_dependencies(deps, i + 1, queued, env, snapshot, built)
              ELSE "missing"

(***************************************************************************)
(* The program that keeps a package repository.                            *)
(***************************************************************************)
RepoInit ==
    /\ base_dirs = {}
    /\ base_files = {}
    /\ artifacts = {}
    /\ index = EmptyMap
    /\ index_file = {}
    /\ repo_pc = "idle"
    /\ formulas = <<>>
    /\ repo_packages = EmptyMap
    /\ built_packages = <<>>
    /\ build_env = [given |-> FALSE, packages |-> {}]
    /\ build_calls = <<>>
    /\ missing_logged = {}
    /\ repo_ops = 0
    /\ repo_outcome = RepoOutcome("LocalPackageRepository", "returned", "", <<>>)

RepoIdle == repo_pc = "idle"

build_formulas_vars ==
    <<repo_pc, formulas, repo_packages, built_packages, build_env, build_calls,
      missing_logged>>

\* os.mkdir(base/name)
MakeDir(name) ==
    /\ repo_ops < MaxRepoOps
    /\ name \notin base_dirs
    /\ base_dirs' = base_dirs \cup {name}
    /\ repo_ops' = repo_ops + 1
    /\ repo_outcome' = RepoOutcome("mkdir", "returned", "", <<>>)
    /\ UNCHANGED <<base_files, artifacts, index, index_file, build_formulas_vars>>

\* The program writes a plain file in base.
WriteFile(name) ==
    /\ repo_ops < MaxRepoOps
    /\ name \notin base_files
    /\ base_files' = base_files \cup {name}
    /\ repo_ops' = repo_ops + 1
    /\ repo_outcome' = RepoOutcome("write", "returned", "", <<>>)
    /\ UNCHANGED <<base_dirs, artifacts, index, index_file, build_formulas_vars>>

\* copyfile(file, base/dir/file)
CopyFile(file) ==
    /\ repo_ops < MaxRepoOps
    /\ file.dir \in base_dirs
    /\ file \notin artifacts
    /\ artifacts' = artifacts \cup {file}
    /\ repo_ops' = repo_ops + 1
    /\ repo_outcome' = RepoOutcome("copyfile", "returned", "", <<>>)
    /\ UNCHANGED <<base_dirs, base_files, index, index_file, build_formulas_vars>>

\* os.unlink(base/dir/file)
RemoveFile(file) ==
    /\ repo_ops < MaxRepoOps
    /\ file \in artifacts
    /\ artifacts' = artifacts \ {file}
    /\ repo_ops' = repo_ops + 1
    /\ repo_outcome' = RepoOutcome("unlink", "returned", "", <<>>)
    /\ UNCHANGED <<base_dirs, base_files, index, index_file, build_formulas_vars>>

\* LocalPackageRepository(base): the index is what repository.json holds.
NewRepository ==
    /\ repo_ops < MaxRepoOps
    /\ repo_ops' = repo_ops + 1
    /\ index # reload(index_file)
    /\ index' = reload(index_file)
    /\ repo_outcome' = RepoOutcome("LocalPackageRepository", "returned", "", <<>>)
    /\ UNCHANGED <<base_dirs, base_files, artifacts, index_file,
                   build_formulas_vars>>

\* repo.add(path) of a file under base: the index in memory has the package,
\* repository.json is not written.
RepositoryAdd(file) ==
    /\ repo_ops < MaxRepoOps
    /\ repo_ops' = repo_ops + 1
    /\ file \in artifacts
    /\ index' = IF file.readable THEN repository_add(index, file) ELSE index
    /\ repo_outcome' = IF file.readable
                       THEN RepoOutcome("add", "returned", "", <<>>)
                       ELSE RepoOutcome("add", "raised", "ReadError", <<>>)
    /\ UNCHANGED <<base_dirs, base_files, artifacts, index_file,
                   build_formulas_vars>>

\* repo.update_metadata(), with the orders os.listdir lists base and the
\* package directories in.
UpdateMetadata(names, orders) ==
    /\ repo_ops < MaxRepoOps
    /\ repo_ops' = repo_ops + 1
    /\ \E r \in {update_metadata(index, index_file, names, base_dirs, orders)} :
          /\ index' = r.idx
          /\ index_file' = IF r.ok THEN {r.idx} ELSE {}
          /\ repo_outcome' = IF r.ok
                             THEN RepoOutcome("update_metadata", "returned", "", <<>>)
                             ELSE RepoOutcome("update_metadata", "raised", "ReadError", <<>>)
    /\ UNCHANGED <<base_dirs, base_files, artifacts, build_formulas_vars>>

\* The orders os.listdir may list a directory in.  update_metadata gives
\* the same index in every order where it reads every file, so that one
\* order stands for all; where a file cannot be read, what it leaves depends
\* on the names and files listed before, and every order is taken.
RECURSIVE Arranged(_)
Arranged(S) ==
    IF S = {}
    THEN <<>>
    ELSE LET first == CHOOSE x \in S : TRUE
         IN  <<first>> \o Arranged(S \ {first})

Listings(S) ==
    IF \A f \in artifacts : f.readable THEN {Arranged(S)} ELSE Perms(S)

ListdirNames == Listings(base_dirs \cup base_files)

ListdirOrders ==
    MapsOver([d \in base_dirs |-> Listings({f \in artifacts : f.dir = d})])

\* build_formulas, lines 169-178
BuildFormulasBegin(formula_repository, env) ==
    /\ repo_ops < MaxBuildOps
    /\ repo_ops' = repo_ops + 1
    /\ repo_pc' = "build_formulas"
    /\ formulas' = LET NotBuilt(key) == ~IsBuilt(index, RecipeOf(key))
                    IN  SelectSeq(formula_repository, NotBuilt)
    /\ repo_packages' = index
    /\ built_packages' = <<>>
    /\ build_env' = env
    /\ build_calls' = <<>>
    /\ missing_logged' = {}
    /\ repo_outcome' = RepoOutcome("build_formulas", "running", "", <<>>)
    /\ UNCHANGED <<base_dirs, base_files, artifacts, index, index_file>>

\* The formula is put at the end of the queue, lines 186-192.
BuildLater(key) ==
    /\ formulas' = Append(Tail(formulas), key)
    /\ UNCHANGED <<base_dirs, base_files, artifacts, index, index_file, repo_ops,
                   repo_pc, repo_packages, built_packages, build_env, build_calls,
                   missing_logged, repo_outcome>>

\* build_formula(formula) in the try of lines 209-217: the package directory
\* is made, the formula built, and the package file added to the index, which
\* is saved; an IpkgException of the build is logged.
BuildNow(key, verdict) ==
    /\ formulas' = Tail(formulas)
    /\ missing_logged' = IF verdict = "missing"
                         THEN missing_logged \cup {key}
                         ELSE missing_logged
    /\ build_calls' = Append(build_calls, key)
    /\ base_dirs' = base_dirs \cup {RecipeOf(key).name}
    /\ \E b \in {formula_build(RecipeOf(key),
                               IF build_env.given THEN build_env.packages ELSE {},
                               index)} :
          /\ artifacts' = artifacts \cup b.created
          /\ build_env' = IF build_env.given
                          THEN [given |-> TRUE, packages |-> b.packages]
                          ELSE build_env
          /\ index' = IF b.status = "returned"
                      THEN repository_add(index, ArtifactOf(RecipeOf(key)))
                      ELSE index
          /\ index_file' = IF b.status = "returned" THEN {index'} ELSE index_file
          /\ built_packages' = IF b.status = "returned"
                               THEN Append(built_packages, ArtifactOf(RecipeOf(key)))
                               ELSE built_packages
    /\ UNCHANGED <<base_files, repo_ops, repo_pc, repo_packages, repo_outcome>>

\* One turn of the while loop of build_formulas, lines 180-217.
BuildFormulasLoop ==
    /\ repo_pc = "build_formulas"
    /\ formulas # <<>>
    /\ \E verdict \in {scan_dependencies(RecipeOf(Head(formulas)).dependencies, 1,
                                         Tail(formulas), build_env, repo_packages,
                                         built_packages)} :
          IF verdict = "later"
          THEN BuildLater(Head(formulas))
          ELSE BuildNow(Head(formulas), verdict)

\* build_formulas, line 219
BuildFormulasReturn ==
    /\ repo_pc = "build_formulas"
    /\ formulas = <<>>
    /\ repo_pc' = "idle"
    /\ repo_outcome' = RepoOutcome("build_formulas", "returned", "", built_packages)
    /\ UNCHANGED <<base_dirs, base_files, artifacts, index, index_file, repo_ops,
                   formulas, repo_packages, built_packages, build_env, build_calls,
                   missing_logged>>

(***************************************************************************)
(* ipkg/utils.py: DictFile.save                                            *)
(***************************************************************************)
\* The names of the packages a document may have.
DocumentNames == {"foo", "bar", "baz"}

\* What json.dump(self, f, indent=4) writes, as the chunks its encoder
\* yields one after the other: '{}' for an empty dict, else the opening
\* brace, the items in the order of the dict, and the closing brace.
RECURSIVE Items(_)
Items(d) ==
    IF d = {}
    THEN <<>>
    ELSE LET first == CHOOSE k \in d : TRUE
         IN  <<[item |-> first]>> \o Items(d \ {first})

Dump(d) == IF d = {} THEN <<"{}">> ELSE <<"{">> \o Items(d) \o <<"}">>

VARIABLES
    dict_file,     \* the keys of meta['packages'] of the DictFile in memory
    dict_path,     \* prefix/.ipkg.meta: {the chunks it holds}, {} when absent
    dict_saved,    \* what prefix/.ipkg.meta held when the last save began
    save_pc        \* "idle", "dump" inside the with of save, or "interrupted"

save_vars == <<dict_file, dict_path, dict_saved, save_pc>>

SaveInit ==
    /\ dict_file = {}
    /\ dict_path = {}
    /\ dict_saved = {}
    /\ save_pc = "idle"

\* self.meta['packages'][package.name] = package.meta
SetItem(name) ==
    /\ save_pc = "idle"
    /\ name \notin dict_file
    /\ dict_file' = dict_file \cup {name}
    /\ UNCHANGED <<dict_path, dict_saved, save_pc>>

\* self.meta['packages'].pop(name)
PopItem(name) ==
    /\ save_pc = "idle"
    /\ name \in dict_file
    /\ dict_file' = dict_file \ {name}
    /\ UNCHANGED <<dict_path, dict_saved, save_pc>>

\* save, line 84: open(self.__file_path, 'w') creates the file or truncates
\* the one there is.
SaveOpen ==
    /\ save_pc = "idle"
    /\ dict_saved' = dict_path
    /\ dict_path' = {<<>>}
    /\ save_pc' = "dump"
    /\ UNCHANGED dict_file

\* save, line 85: json.dump writes the next chunk.
SaveWrite ==
    /\ save_pc = "dump"
    /\ \E written \in dict_path :
          /\ Len(written) < Len(Dump(dict_file))
          /\ dict_path' = {Append(written, Dump(dict_file)[Len(written) + 1])}
    /\ UNCHANGED <<dict_file, dict_saved, save_pc>>

\* save returns: every chunk is written and the file closed.
SaveClose ==
    /\ save_pc = "dump"
    /\ dict_path = {Dump(dict_file)}
    /\ save_pc' = "idle"
    /\ UNCHANGED <<dict_file, dict_path, dict_saved>>

\* The process is interrupted inside save.
Interrupt ==
    /\ save_pc = "dump"
    /\ save_pc' = "interrupted"
    /\ UNCHANGED <<dict_file, dict_path, dict_saved>>

(***************************************************************************)
(* ipkg/environments.py: ListVariable                                      *)
(***************************************************************************)
\* The paths the program names.
PathNames == {"/a", "/b", "/c"}

\* The highest index the program gives to insert; the lowest is -1.
MaxIndex == 3

\* The values the program gives to set: None, a number, and strings, each
\* string as the texts its separators stand between ('' is one empty text,
\* '/a:/a' the text '/a' twice).
SetValues ==
    {[kind |-> "None", texts |-> <<>>], [kind |-> "int", texts |-> <<>>],
     [kind |-> "str", texts |-> <<"">>]}
        \cup {[kind |-> "str", texts |-> <<p>>] : p \in PathNames}
        \cup {[kind |-> "str", texts |-> <<p, q>>] : p \in PathNames, q \in PathNames}

VARIABLES
    path_list,     \* ListVariable.__paths
    path_outcome   \* the last call and how it ended

path_vars == <<path_list, path_outcome>>

PathOutcome(op, path, at, status) ==
    [op |-> op, path |-> path, index |-> at, status |-> status]

\* PathListVariable(name): set(None)
PathInit ==
    /\ path_list = <<>>
    /\ path_outcome = PathOutcome("PathListVariable", "", 0, "returned")

\* value.split(LIST_SEPARATOR)
split(value) == value.texts

\* list.index(path): the first place the path is at.
list_index(list, path) == MinOf({i \in DOMAIN list : list[i] = path})

\* list.pop(i)
list_pop(list, i) == SubSeq(list, 1, i - 1) \o SubSeq(list, i + 1, Len(list))

\* list.insert(index, x), the index counted from 0: x is put before the
\* element at the index, a negative index counts from the end, and an index
\* beyond either end is the end.
list_insert(list, at, x) ==
    LET At(i) == SubSeq(list, 1, i) \o <<x>> \o SubSeq(list, i + 1, Len(list))
    IN  IF at < 0
        THEN At(IF Len(list) + at < 0 THEN 0 ELSE Len(list) + at)
        ELSE At(IF at > Len(list) THEN Len(list) ELSE at)

\* ListVariable.remove, lines 102-105
path_remove(list, path) ==
    IF \E i \in DOMAIN list : list[i] = path
    THEN list_pop(list, list_index(list, path))
    ELSE list

\* ListVariable.insert, lines 107-109
path_insert(list, path, at) == list_insert(path_remove(list, path), at, path)

\* ListVariable.append, lines 111-113
path_append(list, path) == Append(path_remove(list, path), path)

\* var.set(value), lines 94-100
PathSet(value) ==
    /\ path_list' = CASE value.kind = "None" -> <<>>
                      [] value.kind = "str" -> split(value)
                      [] OTHER -> path_list
    /\ path_outcome' = PathOutcome("set", "", 0,
                                   IF value.kind = "int" THEN "raised" ELSE "returned")

\* var.remove(path)
PathRemove(path) ==
    /\ path_list' = path_remove(path_list, path)
    /\ path_outcome' = PathOutcome("remove", path, 0, "returned")

\* var.insert(path, at)
PathInsert(path, at) ==
    /\ path_list' = path_insert(path_list, path, at)
    /\ path_outcome' = PathOutcome("insert", path, at, "returned")

\* var.append(path)
PathAppend(path) ==
    /\ path_list' = path_append(path_list, path)
    /\ path_outcome' = PathOutcome("append", path, 0, "returned")

Init == SolverInit /\ EnvInit /\ ReqInit /\ RepoInit /\ SaveInit /\ PathInit

vars == <<solver_vars, env_vars, req_vars, repo_vars, save_vars, path_vars>>

\* The program uses a solver.
Next ==
    \/ NewSolver /\ UNCHANGED <<env_vars, req_vars, repo_vars, save_vars, path_vars>>
    \/ /\ \E obj \in AddPool : \E order \in Perms(RequirementsOf(obj.key)) :
             Add(obj, order)
       /\ UNCHANGED <<env_vars, req_vars, repo_vars, save_vars, path_vars>>
    \/ /\ \E obj \in FromObjRoots : \E order \in Perms(RequirementsOf(obj.key)) :
          \E env \in {{}, EnvironmentPackages} : \E repos \in RepositoryLists(obj) :
             FromObjBegin(obj, order, env, repos)
       /\ UNCHANGED <<env_vars, req_vars, repo_vars, save_vars, path_vars>>
    \/ FromObjLoop /\ UNCHANGED <<env_vars, req_vars, repo_vars, save_vars, path_vars>>
    \/ FromObjReturn /\ UNCHANGED <<env_vars, req_vars, repo_vars, save_vars, path_vars>>
    \/ /\ \E t \in {{}} \cup {{o} : o \in Targets} : \E ignore \in BOOLEAN :
             SolveBegin(t, ignore)
       /\ UNCHANGED <<env_vars, req_vars, repo_vars, save_vars, path_vars>>
    \/ SolveLoop /\ UNCHANGED <<env_vars, req_vars, repo_vars, save_vars, path_vars>>
    \/ SolveDiverges /\ UNCHANGED <<env_vars, req_vars, repo_vars, save_vars, path_vars>>
    \/ SolveEnd /\ UNCHANGED <<env_vars, req_vars, repo_vars, save_vars, path_vars>>

Spec == Init /\ [][Next]_vars

\* The program uses an environment: it installs and uninstalls packages and
\* builds formulas in it.
EnvNext ==
    \/ /\ \E arg \in InstallArgs, repo \in {{}, PackageRepository} :
             InstallBegin(arg, repo)
       /\ UNCHANGED <<solver_vars, req_vars, repo_vars, save_vars, path_vars>>
    \/ InstallDependency /\ UNCHANGED <<solver_vars, req_vars, repo_vars, save_vars, path_vars>>
    \/ InstallFinish /\ UNCHANGED <<solver_vars, req_vars, repo_vars, save_vars, path_vars>>
    \/ (\E name \in UninstallArgs : Uninstall(name)) /\ UNCHANGED <<solver_vars, req_vars, repo_vars, save_vars, path_vars>>
    \/ /\ \E key \in BuildFormulas, remove \in BOOLEAN,
            repo \in {{}, PackageRepository} : BuildBegin(key, remove, repo)
       /\ UNCHANGED <<solver_vars, req_vars, repo_vars, save_vars, path_vars>>
    \/ BuildDependency /\ UNCHANGED <<solver_vars, req_vars, repo_vars, save_vars, path_vars>>
    \/ (\E ok \in BOOLEAN : BuildSources(ok)) /\ UNCHANGED <<solver_vars, req_vars, repo_vars, save_vars, path_vars>>
    \/ /\ \E written \in SUBSET Paths, ok \in BOOLEAN : BuildInstall(written, ok)
       /\ UNCHANGED <<solver_vars, req_vars, repo_vars, save_vars, path_vars>>
    \/ (\E ok \in BOOLEAN : BuildPackage(ok)) /\ UNCHANGED <<solver_vars, req_vars, repo_vars, save_vars, path_vars>>
    \/ BuildCleanup /\ UNCHANGED <<solver_vars, req_vars, repo_vars, save_vars, path_vars>>

EnvSpec == Init /\ [][EnvNext]_vars

\* The program works with requirements.
ReqNext ==
    \/ /\ ReqIdle
       /\ \E decl \in RequirementTexts : MakeRequirement(decl)
       /\ UNCHANGED <<solver_vars, env_vars, repo_vars, save_vars, path_vars>>
    \/ /\ ReqIdle
       /\ \E a \in OperandTexts : \E b \in OperandTexts : \E c \in OperandTexts :
             AddRequirements(a, b, c)
       /\ UNCHANGED <<solver_vars, env_vars, repo_vars, save_vars, path_vars>>
    \/ /\ ReqIdle
       /\ \E decl \in RequirementTexts : \E candidate \in Candidates :
             AskSatisfiedBy(decl, candidate)
       /\ UNCHANGED <<solver_vars, env_vars, repo_vars, save_vars, path_vars>>
    \/ /\ ReqIdle
       /\ \E files \in SUBSET PlatformFiles : \E decl \in LookupTexts :
          \E platform \in {CurrentPlatform, ForeignPlatform} :
             Find(files, decl, platform)
       /\ UNCHANGED <<solver_vars, env_vars, repo_vars, save_vars, path_vars>>
    \/ /\ ReqIdle
       /\ \E content \in Contents(MaxBytes) : \E expected_hash \in Hashes :
             FileOpen(content, expected_hash)
       /\ UNCHANGED <<solver_vars, env_vars, repo_vars, save_vars, path_vars>>
    \/ /\ ReqIdle
       /\ \E content \in Contents(MaxBytes) : \E position \in 0..MaxBytes :
          \E expected_hash \in Hashes :
             position <= Len(content) /\ VerifyChecksum(content, position, expected_hash)
       /\ UNCHANGED <<solver_vars, env_vars, repo_vars, save_vars, path_vars>>
    \/ /\ ReqIdle
       /\ \E a \in PackageLikes : \E b \in PackageLikes : \E op \in {"lt", "gt"} :
             Compare(a, b, op)
       /\ UNCHANGED <<solver_vars, env_vars, repo_vars, save_vars, path_vars>>
    \/ /\ ReqIdle
       /\ \E lines \in TextFiles(MaxLines) : \E line_start \in {"prefix=", "libdir="} :
             RewriteFirstMatch(lines, line_start)
       /\ UNCHANGED <<solver_vars, env_vars, repo_vars, save_vars, path_vars>>

ReqSpec == Init /\ [][ReqNext]_vars

\* The program keeps a package repository.
RepoNext ==
    \/ /\ RepoIdle
       /\ \E name \in PackageDirs : MakeDir(name)
       /\ UNCHANGED <<solver_vars, env_vars, req_vars, save_vars, path_vars>>
    \/ /\ RepoIdle
       /\ \E name \in TopLevelFiles : WriteFile(name)
       /\ UNCHANGED <<solver_vars, env_vars, req_vars, save_vars, path_vars>>
    \/ /\ RepoIdle
       /\ \E file \in CopiedFiles : CopyFile(file)
       /\ UNCHANGED <<solver_vars, env_vars, req_vars, save_vars, path_vars>>
    \/ /\ RepoIdle
       /\ \E file \in artifacts : RemoveFile(file)
       /\ UNCHANGED <<solver_vars, env_vars, req_vars, save_vars, path_vars>>
    \/ /\ RepoIdle
       /\ NewRepository
       /\ UNCHANGED <<solver_vars, env_vars, req_vars, save_vars, path_vars>>
    \/ /\ RepoIdle
       /\ \E file \in artifacts : RepositoryAdd(file)
       /\ UNCHANGED <<solver_vars, env_vars, req_vars, save_vars, path_vars>>
    \/ /\ RepoIdle
       /\ \E names \in ListdirNames : \E orders \in ListdirOrders :
             UpdateMetadata(names, orders)
       /\ UNCHANGED <<solver_vars, env_vars, req_vars, save_vars, path_vars>>
    \/ /\ RepoIdle
       /\ \E formula_repository \in FormulaRepositories : \E env \in BuildEnvironments :
             BuildFormulasBegin(formula_repository, env)
       /\ UNCHANGED <<solver_vars, env_vars, req_vars, save_vars, path_vars>>
    \/ BuildFormulasLoop /\ UNCHANGED <<solver_vars, env_vars, req_vars, save_vars, path_vars>>
    \/ BuildFormulasReturn /\ UNCHANGED <<solver_vars, env_vars, req_vars, save_vars, path_vars>>

RepoSpec == Init /\ [][RepoNext]_vars

\* The program changes the packages of an environment and saves its meta;
\* it may be interrupted while it saves.
SaveNext ==
    \/ (\E name \in DocumentNames : SetItem(name)) /\ UNCHANGED <<solver_vars, env_vars, req_vars, repo_vars, path_vars>>
    \/ (\E name \in DocumentNames : PopItem(name)) /\ UNCHANGED <<solver_vars, env_vars, req_vars, repo_vars, path_vars>>
    \/ SaveOpen /\ UNCHANGED <<solver_vars, env_vars, req_vars, repo_vars, path_vars>>
    \/ SaveWrite /\ UNCHANGED <<solver_vars, env_vars, req_vars, repo_vars, path_vars>>
    \/ SaveClose /\ UNCHANGED <<solver_vars, env_vars, req_vars, repo_vars, path_vars>>
    \/ Interrupt /\ UNCHANGED <<solver_vars, env_vars, req_vars, repo_vars, path_vars>>

SaveSpec == Init /\ [][SaveNext]_vars

\* The program keeps a path-list variable.
PathNext ==
    \/ (\E value \in SetValues : PathSet(value)) /\ UNCHANGED <<solver_vars, env_vars, req_vars, repo_vars, save_vars>>
    \/ (\E path \in PathNames : PathRemove(path)) /\ UNCHANGED <<solver_vars, env_vars, req_vars, repo_vars, save_vars>>
    \/ /\ \E path \in PathNames : \E at \in -1..MaxIndex : PathInsert(path, at)
       /\ UNCHANGED <<solver_vars, env_vars, req_vars, repo_vars, save_vars>>
    \/ (\E path \in PathNames : PathAppend(path)) /\ UNCHANGED <<solver_vars, env_vars, req_vars, repo_vars, save_vars>>

PathSpec == Init /\ [][PathNext]_vars

(***************************************************************************)
(* Properties of Solver.solve                                              *)
(***************************************************************************)
\* solve has returned a list.
SolveReturned == pc = "idle" /\ outcome.op = "solve" /\ outcome.status = "returned"

\* solve(target) has ended, one way or another, for a target of the solver.
SolveTargetEnded ==
    /\ pc = "idle"
    /\ outcome.op = "solve"
    /\ target # {}
    /\ target \subseteq objects

TargetNode == NodeOf(CHOOSE o \in target : TRUE)

\* The selected satisfiers of the requirements of a node.
SelectedSatisfiers(node) ==
    {selected[name] : name \in RequirementNames(SolverState, node) \cap DOMAIN selected}

\* The nodes reachable from those of from through selected satisfiers.
RECURSIVE Closure(_)
Closure(from) ==
    LET next == from \cup UNION {SelectedSatisfiers(n) : n \in from}
    IN  IF next = from THEN from ELSE Closure(next)

\* A dependency cycle among the nodes reachable from node.
ClosureHasCycle(node) ==
    \E n \in Closure({node}) : n \in Closure(SelectedSatisfiers(n))

\* The cycle errors of solve: no root at the start, dependents left at the end.
IsCycleError ==
    \/ outcome.status = "DependencyLoop"
    \/ outcome.status = "IpkgException" /\ outcome.message = "Cannot find a node (loop?)"

Positions(obj) == {i \in DOMAIN outcome.result : outcome.result[i] = obj}

\* C1: when solve returns a list, every object of the list stands after the
\* selected satisfier of each of its requirements, if that satisfier is in the
\* list: before each place of the object there is a place of the satisfier.
C1_SatisfiersFirst ==
    SolveReturned =>
        \A j \in DOMAIN outcome.result :
            \A a \in SelectedSatisfiers(NodeOf(outcome.result[j])) :
                Positions(ObjectOfNode(a)) # {} =>
                    \E i \in Positions(ObjectOfNode(a)) : i < j

\* C1 at work: solve(one-1.0) has returned five-1.0, which requires four>1.0,
\* and four-1.8, the satisfier selected for it.
C1_Witness ==
    /\ SolveReturned
    /\ target = {Object("one-1.0", 0)}
    /\ Positions(Object("five-1.0", 0)) # {}
    /\ Positions(Object("four-1.8", 0)) # {}
    /\ selected["four"] = NodeOf(Object("four-1.8", 0))

\* C2: solve(target) ends with a cycle error whenever the nodes reachable from
\* the target hold a dependency cycle (every requirement reached having a
\* satisfier, so that no other error comes first).
C2_CycleIsReported ==
    /\ SolveTargetEnded
    /\ find_best_dependencies(SolverState, selected, TargetNode).ok
    /\ ClosureHasCycle(TargetNode)
    => IsCycleError

\* C3: every object solve(target) returns is the target or is reachable from
\* it through selected satisfiers.
C3_ResultWithinClosure ==
    SolveReturned /\ target # {} =>
        \A i \in DOMAIN outcome.result :
            NodeOf(outcome.result[i]) \in Closure({TargetNode})

\* C3 at work: solve(u-1.0) has returned u-1.0 and w-2.0 from a solver that
\* also holds w-1.0 and the loop it requires.
C3_Witness ==
    /\ SolveReturned
    /\ target = {Object("u-1.0", 0)}
    /\ Len(outcome.result) = 2
    /\ NodeOf(Object("loop-b-1.0", 0)) \in Range(nodes)
    /\ NodeOf(Object("w-1.0", 0)) \in Range(nodes)

\* The nodes of the solver that satisfy the requirement of every requester of
\* the name.
SatisfyEveryRequester(name) ==
    {n \in Range(nodes) :
        \A r \in DOMAIN requirements[name].requesters :
            satisfied_by(requirements[name].requesters[r], Obj(n))}

\* The objects of the result that have the name.
ResultObjectsNamed(name) ==
    {o \in Range(outcome.result) : ObjectOf(o.key).name = name}

InstallCalled(key) ==
    /\ EnvIdle
    /\ env_outcome'.op = "install"
    /\ env_outcome'.package = key
    /\ env_outcome'.status # ""
    /\ env_outcome' # env_outcome \/ env_pc' # env_pc

\* The last call was install, it has ended, and it named the package file.
InstallEnded(key) ==
    /\ EnvIdle
    /\ env_outcome.op = "install"
    /\ env_outcome.package = key

\* The packages recorded in m have, by name, the packages their dependencies name.
ClosedUnderDependencies(m) ==
    \A n \in DOMAIN m : \A i \in DOMAIN MetaOf(m[n]).dependencies :
        MetaOf(m[n]).dependencies[i].name \in DOMAIN m

\* C5: installing a package whose (name, version, revision) is already
\* installed is a no-op: the call returns without error and leaves the files
\* and directories under the prefix, the meta in memory and on disk and the
\* variables as they were, so the installed packages and their dependencies
\* are those the first install left.
C5_InstallAgainIsNoOp ==
    [][\A key \in PackageFiles :
          (/\ InstallCalled(key)
           /\ MetaOf(key).name \in DOMAIN meta
           /\ MetaOf(meta[MetaOf(key).name]).version = MetaOf(key).version
           /\ MetaOf(meta[MetaOf(key).name]).revision = MetaOf(key).revision)
          => /\ env_outcome'.status = "returned"
             /\ UNCHANGED <<fs, dirs, meta, meta_file, variables>>]_vars

\* foo 1.0-1 was installed, install was called with it again and has returned.
C5_Witness ==
    /\ InstallEnded("foo-1.0-1")
    /\ env_outcome.status = "returned"
    /\ "foo" \in DOMAIN env_outcome.before.packages
    /\ env_outcome.before.packages["foo"] = "foo-1.0-1"
    /\ meta = env_outcome.before.packages

\* C6: when a package named N is installed and install is called with a
\* package N of another (version, revision), the call returns, the meta of N
\* describes the new package, and the files that only the old one listed are
\* no longer under the prefix.
C6_OtherVersionIsReplaced ==
    \A key \in PackageFiles :
        LET name == MetaOf(key).name
            old == env_outcome.before.packages[name]
        IN  (/\ InstallEnded(key)
             /\ name \in DOMAIN env_outcome.before.packages
             /\ \/ MetaOf(old).version # MetaOf(key).version
                \/ MetaOf(old).revision # MetaOf(key).revision)
            => /\ env_outcome.status = "returned"
               /\ name \in DOMAIN meta
               /\ meta[name] = key
               /\ \A f \in Range(MetaOf(old).files) \ Range(MetaOf(key).files) :
                     fs[f] = Absent

C8_UninstallRestores ==
    [][\A key \in PackageFiles :
          (/\ InstallEnded(key)
           /\ env_outcome.status = "returned"
           /\ MetaOf(key).name \notin DOMAIN env_outcome.before.packages
           /\ Dependents(meta, MetaOf(key).name) = {}
           /\ env_outcome'.op = "uninstall"
           /\ env_outcome'.arg = NameArg(MetaOf(key).name))
          => /\ MetaOf(key).name \notin DOMAIN meta'
             /\ \A f \in Range(MetaOf(key).files) :
                   fs'[f] = env_outcome.before.fs[f]]_vars

(***************************************************************************)
(* Properties of Formula.build                                             *)
(***************************************************************************)
\* The paths that are files.
FilesOf(files) == {f \in Paths : files[f] # Absent}

\* build raises in this step, which is not the cleanup at its end.
BuildFails ==
    /\ formula # ""
    /\ ~BuildStep("cleanup")
    /\ env_pc' = "idle"
    /\ env_outcome'.status = "raised"

\* C9: when a step of build before the cleanup raises (the installation of a
\* dependency, the sources, the patches, the install step, the creation of
\* the package file), the error leaves build with the files build added
\* under the prefix removed and the packages build installed uninstalled.
C9_FailedBuildCleansUp ==
    [][BuildFails
          => /\ FilesOf(fs') \subseteq FilesOf(env_outcome'.before.fs)
             /\ DOMAIN meta' \subseteq DOMAIN env_outcome'.before.packages]_vars

\* The files the uninstallation of the dependencies removes.
DependencyFiles(m, dependencies) ==
    UNION {Range(MetaOf(m[dependencies[i].name]).files) : i \in DOMAIN dependencies}

\* build creates the package file in this step.
PackageCreated == BuildStep("package") /\ build_pc'.step = "cleanup"

\* build returns in this step.
BuildReturns == BuildStep("cleanup") /\ env_outcome'.status = "returned"

C11_BuildKeepsInstalledPackages ==
    [][BuildReturns
          => \A n \in DOMAIN env_outcome.before.packages :
                /\ n \in DOMAIN meta'
                /\ meta'[n] = env_outcome.before.packages[n]]_vars

(***************************************************************************)
(* Properties of requirements                                              *)
(***************************************************************************)
\* Two sums are the same: both raise, or both are the same requirement.
SameSum(x, y) == x.ok = y.ok /\ (x.ok => x.value = y.value)

\* C12: for requirements a, b and c of one name and one platform, a + b is
\* b + a and (a + b) + c is a + (b + c), and one side raises exactly when the
\* other does.
C12_AddCommutesAndAssociates ==
    req_op = "add"
        => /\ SameSum(req_result.value[1], req_result.value[2])
           /\ SameSum(req_result.value[3], req_result.value[4])

\* The platform of the requirement made of a text.
PlatformOf(decl) == IF decl.platform = <<>> THEN CurrentPlatform ELSE decl.platform

\* The candidate passes the pairs of the text that have one of the operators.
PassesPairs(decl, candidate, operators) ==
    \A s \in decl.sels :
        s.op \in operators => OPERATORS(s.op, candidate.version, s.ver)

\* C13: Requirement(s).satisfied_by(candidate) is true exactly when the name
\* of the candidate is that of the requirement, the platforms are compatible
\* and the version of the candidate passes every pair written in s, whichever
\* of ==, !=, <, <=, > and >= the pair has.
C13_SatisfiedIffEveryPairPasses ==
    req_op = "satisfied_by" /\ req_result.ok
        => req_result.value[1] =
              (/\ req_args[2].name = req_args[1].name
               /\ PlatformEq(req_args[2].platform, PlatformOf(req_args[1]))
               /\ PassesPairs(req_args[1], req_args[2],
                              {"==", "!=", "<", "<=", ">", ">="}))

\* The lower bounds and the upper bounds of a set of selectors.
Lowers(sels) == {s \in sels : s.op \in {">", ">="}}

Uppers(sels) == {s \in sels : s.op \in {"<", "<="}}

\* The versions the selectors are compared on: those a text names and one
\* between each two of them, counted in halves.
DenseVersions == 0..(2 * MaxVersion + 1)

Passes(s, half) == OPERATORS(s.op, half, 2 * s.ver)

\* The strictest selectors of a set: those every version of which passes all
\* the others.
Strictest(sels) ==
    {s \in sels : \A t \in sels : \A half \in DenseVersions :
                     Passes(s, half) => Passes(t, half)}

\* The strictest bounds given are >= v and <= v.
Collapses(given, v) ==
    /\ Strictest(Lowers(given)) = {Selector(">=", v)}
    /\ Strictest(Uppers(given)) = {Selector("<=", v)}

\* The list is the canonical one of the selectors given.
CanonicalOf(given, versions) ==
    /\ Cardinality(Lowers(Range(versions))) <= 1
    /\ Cardinality(Uppers(Range(versions))) <= 1
    /\ IF \E v \in 0..MaxVersion : Collapses(given, v)
       THEN /\ Lowers(Range(versions)) = {}
            /\ Uppers(Range(versions)) = {}
            /\ \A v \in 0..MaxVersion :
                  Collapses(given, v) => Selector("==", v) \in Range(versions)
       ELSE /\ Lowers(Range(versions)) = Strictest(Lowers(given))
            /\ Uppers(Range(versions)) = Strictest(Uppers(given))

\* The selectors of the requirement an expression gave, {} where it raised.
SelectorsOf(x) == IF x.ok THEN Range(x.value[1].versions) ELSE {}

\* C14: the list of selectors of a requirement made of a text or by a sum has
\* one lower bound and one upper bound at most, each the strictest of those
\* given, and where these are >= v and <= v it has == v in their place.
C14_CanonicalBounds ==
    /\ req_op = "Requirement" /\ req_result.ok
          => CanonicalOf(req_args[1].sels, req_result.value[1].versions)
    /\ req_op = "add" /\ req_result.value[1].ok
          => CanonicalOf(req_args[1].sels \cup req_args[2].sels,
                         req_result.value[1].value[1].versions)
    /\ req_op = "add" /\ req_result.value[3].ok
          => CanonicalOf(SelectorsOf(req_result.value[1]) \cup req_args[3].sels,
                         req_result.value[3].value[1].versions)

\* The requirement made of "foo>=1,>1,<=2" is foo>1,<=2.
C14_Witness ==
    /\ req_op = "Requirement"
    /\ req_args[1].sels = {Selector(">=", 1), Selector(">", 1), Selector("<=", 2)}
    /\ req_result.ok
    /\ req_result.value[1].versions = <<Selector(">", 1), Selector("<=", 2)>>

\* Some version passes every selector of the set.
Satisfiable(sels) ==
    \E half \in DenseVersions : \A s \in sels : Passes(s, half)

\* The expression raised the error of the selectors that exclude each other.
IsExclusive(x) == ~x.ok /\ x.err = "ExclusiveVersionRequirements"

\* C15: a text or a sum is refused with ExclusiveVersionRequirements only
\* where its == pairs name two versions or no version passes all its pairs:
\* selectors some version passes, such as an == with a bound that admits it,
\* are accepted.
C15_ExclusiveOnlyWhenUnsatisfiable ==
    /\ req_op = "Requirement" /\ IsExclusive(req_result)
          => ~Satisfiable(req_args[1].sels)
    /\ req_op = "add" /\ IsExclusive(req_result.value[1])
          => ~Satisfiable(req_args[1].sels \cup req_args[2].sels)

(***************************************************************************)
(* Properties of Solver.from_obj and Solver.add                            *)
(***************************************************************************)
\* The objects from_obj knows of: those of the solver, the packages of the
\* environment and the objects of the repositories.
KnownObjects ==
    {Obj(n) : n \in DOMAIN heap}
        \cup {ObjectOf(k) : k \in environment}
        \cup UNION {{ObjectOf(o.key) : o \in repositories[i]} : i \in DOMAIN repositories}

\* What from_obj finds for a requirement outside the solver.
FoundOutside(requirement) ==
    {k \in environment : satisfied_by(requirement, ObjectOf(k))}
        \cup {o.key : o \in Range(FindAll(repositories, requirement, 1))}

\* The names required in the solver whose merged requirement no known object
\* satisfies.
NamesWithoutSatisfier ==
    {n \in DOMAIN requirements :
        \A o \in KnownObjects : ~satisfied_by(requirements[n].merged, o)}

FromObjReturns == pc = "from_obj" /\ pc' = "idle" /\ outcome'.status = "returned"

\* The place of a node in Solver.nodes.
Position(node) == CHOOSE i \in DOMAIN nodes : nodes[i] = node

\* The nodes Solver.add has offered to the requirement called name: add calls
\* satisfy with the new node only where the name is already required, by the
\* new node or by a node added before it.
OfferedTo(name) ==
    {x \in Range(nodes) :
        \E r \in DOMAIN requirements[name].requesters :
            r \in Range(nodes) /\ Position(r) <= Position(x)}

\* The names required in the solver whose merged requirement is satisfied by
\* none of the nodes offered to it.
NamesNeverSatisfied ==
    {n \in DOMAIN requirements :
        \A x \in OfferedTo(n) : ~satisfied_by(requirements[n].merged, Obj(x))}

\* C16 as stated: from_obj does not raise where the requirements it has yet to
\* look at have no satisfier in the environment or in a repository, and when
\* it returns solver.unsatisfied has the requirements of exactly the names
\* that no object of the solver, the environment or a repository satisfies.
C16_UnsatisfiedHaveNoSatisfier ==
    [][/\ (/\ pc = "from_obj"
           /\ \A item \in from_obj_queue : FoundOutside(item[2]) = {})
          => outcome'.status \in {"running", "returned"}
       /\ FromObjReturns
          => {r.name : r \in unsatisfied(SolverState)} = NamesWithoutSatisfier]_vars

\* C16: from_obj does not raise where the requirements it has yet to look at
\* have no satisfier in the environment or in a repository, and when it
\* returns solver.unsatisfied has the requirements of exactly the names that
\* no node added with or after the first node requiring the name satisfies.
C16_FromObjLeavesUnsatisfied ==
    [][/\ (/\ pc = "from_obj"
           /\ \A item \in from_obj_queue : FoundOutside(item[2]) = {})
          => outcome'.status \in {"running", "returned"}
       /\ FromObjReturns
          => {r.name : r \in unsatisfied(SolverState)} = NamesNeverSatisfied]_vars

\* from_obj(loop-b-1.0) has returned with a repository that has loop-c but
\* not loop-b: loop-c requires loop-b, which is unsatisfied although the
\* root is in the solver.
C16_Witness ==
    /\ pc = "idle"
    /\ origin = "from_obj"
    /\ outcome.op = "from_obj"
    /\ outcome.status = "returned"
    /\ outcome.result = <<Object("loop-b-1.0", 0)>>
    /\ Len(nodes) = 2
    /\ {r.name : r \in unsatisfied(SolverState)} = {"loop-b"}

\* C17: solver.add(obj) with an object the solver already has raises
\* IpkgException and leaves nodes, requirements, objects and the Node objects
\* as they were.
C17_AddTwiceRaises ==
    [][\A obj \in AddPool : \A order \in Perms(RequirementsOf(obj.key)) :
          (obj \in objects /\ Add(obj, order))
             => /\ outcome' = Raised("add", "IpkgException", "")
                /\ UNCHANGED <<nodes, requirements, objects, heap>>]_vars

\* add(two-1.6) has raised IpkgException on a solver that has two-1.6 and
\* the requirements it made.
C17_Witness ==
    /\ pc = "idle"
    /\ origin = "Solver"
    /\ outcome = Raised("add", "IpkgException", "")
    /\ Object("two-1.6", 0) \in objects
    /\ Object("four-1.8", 0) \in objects
    /\ Len(nodes) = 2
    /\ DOMAIN requirements = {"four", "five"}

(***************************************************************************)
(* Properties of LocalPackageRepository                                    *)
(***************************************************************************)
\* build_formula is called with the formula at the head of the queue in this
\* step.
BuildInvoked ==
    /\ repo_pc = "build_formulas"
    /\ formulas # <<>>
    /\ build_calls' = Append(build_calls, Head(formulas))

BuildFormulasReturns == repo_pc = "build_formulas" /\ repo_pc' = "idle"

\* The formula of the catalogue that builds the package file.
FormulaOfPath(path) == RecipeOf(CHOOSE key \in RecipeKeys : ArtifactOf(RecipeOf(key)) = path)

\* A dependency of the formula names the thing.
DependsOn(recipe, thing) ==
    \E i \in DOMAIN recipe.dependencies : Names(recipe.dependencies[i], thing)

\* C18: build_formula is called with a formula only when no formula still in
\* the queue is named by one of its dependencies, and in the list
\* build_formulas returns no package file comes before the package file of a
\* formula it depends on.  No formula of the catalogue depends on itself
\* through others.
C18_DependenciesBuiltFirst ==
    [][/\ BuildInvoked
          => \A j \in DOMAIN Tail(formulas) :
                ~DependsOn(RecipeOf(Head(formulas)), RecipeOf(Tail(formulas)[j]))
       /\ BuildFormulasReturns
          => \A i \in DOMAIN built_packages : \A j \in DOMAIN built_packages :
                i < j => ~DependsOn(FormulaOfPath(built_packages[i]), built_packages[j])]_vars

\* Nothing has what the dependency names: no package of the environment, no
\* package of the repository, as it was when build_formulas began or as it
\* is, and no formula still in the queue.
SatisfiedNowhere(dependency) ==
    /\ ~(build_env.given /\ dependency.name \in build_env.packages)
    /\ Found(repo_packages, dependency) = {}
    /\ Found(index, dependency) = {}
    /\ \A j \in DOMAIN Tail(formulas) : ~Names(dependency, RecipeOf(Tail(formulas)[j]))

\* C19: where the formula at the head of the queue has a dependency that
\* nothing satisfies, the turn of the loop does not call build_formula, and
\* adds no package file to the repository or to the list to return.
C19_MissingDependencySkipped ==
    [][(/\ repo_pc = "build_formulas"
        /\ formulas # <<>>
        /\ \E i \in DOMAIN RecipeOf(Head(formulas)).dependencies :
              SatisfiedNowhere(RecipeOf(Head(formulas)).dependencies[i]))
          => /\ build_calls' = build_calls
             /\ built_packages' = built_packages
             /\ artifacts' = artifacts
             /\ index' = index
             /\ index_file' = index_file]_vars

\* The index that has one entry for each of the files, and no other key.
IndexOf(files) ==
    [n \in {f.name : f \in files} |->
        [v \in {f.version : f \in {g \in files : g.name = n}} |->
            [r \in {f.revision : f \in {g \in files : g.name = n /\ g.version = v}} |->
                IndexEntry(CHOOSE f \in files :
                              f.name = n /\ f.version = v /\ f.revision = r)]]]

UpdateMetadataReturns ==
    /\ RepoIdle
    /\ repo_outcome'.op = "update_metadata"
    /\ repo_outcome'.status = "returned"

\* C20: when update_metadata returns, the index in memory and what
\* repository.json holds have one entry for each file under the package
\* directories of base, and nothing else.
C20_IndexIsTheFiles ==
    [][UpdateMetadataReturns
          => /\ index' = IndexOf(artifacts)
             /\ index_file' = {IndexOf(artifacts)}]_vars

\* update_metadata is called in this step.
UpdateMetadataCalled == RepoIdle /\ repo_outcome'.op = "update_metadata"

\* C21: where a file under a package directory is no package file,
\* update_metadata returns all the same, the index has the entry of every
\* package file under the package directories, and repository.json holds
\* the index.
C21_BadFilesSkipped ==
    [][(UpdateMetadataCalled /\ \E f \in artifacts : ~f.readable)
          => /\ repo_outcome'.status = "returned"
             /\ \A f \in artifacts : f.readable => IndexEntry(f) \in EntriesOf(index')
             /\ index_file' = {index'}]_vars

(***************************************************************************)
(* C22                                                                     *)
(***************************************************************************)
\* The files of the repository that the lookup is for: they have the name,
\* their version satisfies the selectors, and they are for the platform.
Eligible(files, decl, platform) ==
    {f \in files : /\ f.name = decl.name
                   /\ satisfied_by_version(Requirement(decl), f.version)
                   /\ PlatformEq(f.platform, platform)}

\* No file is above f by version, then by revision.
Highest(f, S) ==
    \A g \in S : g.version < f.version
                   \/ (g.version = f.version /\ g.revision <= f.revision)

\* C22: the lookup of a requirement returns the package of the repository
\* with the highest version and revision among those of the name whose
\* version satisfies the requirement and that are for the platform, and it
\* raises RequirementNotFound where the repository has no such package.
C22_FindHighestForPlatform ==
    req_op = "find" =>
        \E e \in {Eligible(req_args[1], req_args[2], req_args[3])} :
            IF e = {}
            THEN ~req_result.ok /\ req_result.err = "RequirementNotFound"
            ELSE /\ req_result.ok
                 /\ req_result.value[1] \in e
                 /\ Highest(req_result.value[1], e)

(***************************************************************************)
(* C23                                                                     *)
(***************************************************************************)
\* C23: saving the meta of the environment is atomic: where the process is
\* interrupted inside save, prefix/.ipkg.meta holds the whole of the
\* document it held before the save or the whole of the new one, and never
\* an empty document or a part of one.
C23_SaveIsAtomic ==
    save_pc = "interrupted" => dict_path \in {dict_saved, {Dump(dict_file)}}

(***************************************************************************)
(* C24                                                                     *)
(***************************************************************************)
\* uninstall returns in this step.
UninstallReturns ==
    /\ EnvIdle
    /\ env_outcome'.op = "uninstall"
    /\ env_outcome'.status = "returned"

\* C24: uninstall(name) removes every parent directory that the deletion of
\* the files of the package leaves empty: when it has returned, no directory
\* on the path from the prefix to a file it deleted is there and empty.
C24_NoEmptyParentLeft ==
    [][UninstallReturns
          => \A f \in Paths :
                (fs[f] # Absent /\ fs'[f] = Absent)
                   => \A d \in Ancestors(f) \cap dirs' :
                         ~IsEmptyDir(fs', dirs', meta_file', d)]_vars

(***************************************************************************)
(* C25                                                                     *)
(***************************************************************************)
\* C25: opening a File that declares a hash verifies the whole content
\* before the caller has the file object: the open raises InvalidChecksum
\* where the digest of the content is not the one declared, and returns
\* without reading anything where none was declared; the verification
\* leaves the read position of the stream where it was.
C25_OpenVerifiesWholeContent ==
    /\ req_op = "File.open" =>
          IF req_args[3] = {}
          THEN req_result.ok /\ req_result.value[2] = <<>>
          ELSE /\ req_result.value[2] = <<req_args[1]>>
               /\ req_result.ok <=> Digest(req_args[1]) \in req_args[3]
               /\ ~req_result.ok => req_result.err = "InvalidChecksum"
    /\ req_op \in {"File.open", "verify_checksum"} =>
          /\ req_result.value[1].position = req_args[2]
          /\ req_result.value[1].content = req_args[1]

\* A File with a hash, which is the digest of its three bytes, is opened:
\* the bytes were read to the end and the position is at the beginning.
C25_Witness ==
    /\ req_op = "File.open"
    /\ Len(req_args[1]) = 3
    /\ req_args[3] = {Digest(req_args[1])}
    /\ req_result.ok
    /\ req_result.value[2] = <<req_args[1]>>
    /\ req_result.value[1].position = 0

(***************************************************************************)
(* C26                                                                     *)
(***************************************************************************)
\* The number of places the path is at.
Occurrences(list, path) == Cardinality({i \in DOMAIN list : list[i] = path})

\* C26: a path-list variable never holds a path twice: after any calls of
\* set, insert, append and remove each path is there once at most, after
\* insert(path, index) the path is at the index, and after append(path) it
\* is the last.
C26_NoPathTwice ==
    /\ \A i \in DOMAIN path_list : Occurrences(path_list, path_list[i]) <= 1
    /\ (path_outcome.op = "insert" /\ path_outcome.index >= 0)
          => /\ path_outcome.index + 1 \in DOMAIN path_list
             /\ path_list[path_outcome.index + 1] = path_outcome.path
    /\ path_outcome.op = "append"
          => path_list # <<>> /\ path_list[Len(path_list)] = path_outcome.path

(***************************************************************************)
(* C27                                                                     *)
(***************************************************************************)
\* a is before b: its version is lower, or the versions are equal and its
\* revision is lower.
Before(a, b) ==
    a.version < b.version \/ (a.version = b.version /\ a.revision < b.revision)

\* C27: for two package-like objects of the same name, a < b is true iff
\* the version of a is lower, or the versions are equal and the revision of
\* a is lower, and a > b likewise the other way; objects of different names
\* are never ordered.
C27_OrderByVersionThenRevision ==
    req_op \in {"lt", "gt"} =>
        /\ req_result.ok
        /\ req_result.value[1] =
              IF req_args[1].name # req_args[2].name
              THEN FALSE
              ELSE IF req_op = "lt"
                   THEN Before(req_args[1], req_args[2])
                   ELSE Before(req_args[2], req_args[1])

(***************************************************************************)
(* C28                                                                     *)
(***************************************************************************)
\* The nodes that require the node and are not reachable from it.
DependentsOutside(node) == heap[node].dependents \ Closure({node})

\* C28: solve(target) takes its roots within the graph restricted to the
\* closure of the target: a target that nodes outside its closure require is
\* a root all the same, and solve(target) returns a list whose last element
\* is the target (every requirement reached having a satisfier and the
\* closure no cycle, so that nothing else makes it fail).
C28_TargetIsARoot ==
    /\ SolveTargetEnded
    /\ find_best_dependencies(SolverState, selected, TargetNode).ok
    /\ ~ClosureHasCycle(TargetNode)
    /\ DependentsOutside(TargetNode) # {}
    => /\ outcome.status = "returned"
       /\ outcome.result # <<>>
       /\ outcome.result[Len(outcome.result)] \in target

(***************************************************************************)
(* C29                                                                     *)
(***************************************************************************)
\* The nodes of the solver whose object is a package of the environment.
EnvironmentNodes == {n \in Range(nodes) : Obj(n).kind = "installed"}

\* The names that only packages of the environment require.
NamesOfEnvironmentOnly ==
    {n \in DOMAIN requirements :
        /\ DOMAIN requirements[n].requesters # {}
        /\ DOMAIN requirements[n].requesters \subseteq EnvironmentNodes}

\* from_obj adds a package of the environment in this step.
AddsEnvironmentPackage ==
    /\ pc = "from_obj"
    /\ pc' = "from_obj"
    /\ \E k \in environment : \E n \in Range(nodes') \ Range(nodes) : n.key = k

\* C29: where from_obj satisfies a requirement with a package installed in
\* the environment, one matching package is added as a node and its own
\* dependencies are taken as resolved: they are not put in the queue, and
\* when from_obj has returned solver.unsatisfied has no requirement that
\* only a package of the environment declares.
C29_EnvironmentDependenciesResolved ==
    [][/\ AddsEnvironmentPackage
          => /\ Len(nodes') = Len(nodes) + 1
             /\ from_obj_queue' \subseteq from_obj_queue
       /\ FromObjReturns
          => \A n \in NamesOfEnvironmentOnly :
                requirements[n].merged \notin unsatisfied(SolverState)]_vars

(***************************************************************************)
(* C30                                                                     *)
(***************************************************************************)
\* C30: when add(obj) adds an object whose name has a SolverRequirement
\* already, obj is put in the satisfier set of a requester R, and R in the
\* dependents of obj, exactly for the requesters R whose own original
\* requirement obj satisfies, whatever the other requesters require.
C30_SatisfiesEachRequesterApart ==
    [][\A obj \in AddPool : \A order \in Perms(RequirementsOf(obj.key)) :
          (/\ Add(obj, order)
           /\ outcome'.status = "returned"
           /\ Obj(NodeOf(obj)).name \in DOMAIN requirements)
          => \A R \in DOMAIN requirements[Obj(NodeOf(obj)).name].requesters :
                \E original \in {requirements[Obj(NodeOf(obj)).name].requesters[R]} :
                   /\ NodeOf(obj) \in heap'[R].requirements[original]
                         <=> satisfied_by(original, Obj(NodeOf(obj)))
                   /\ R \in heap'[NodeOf(obj)].dependents
                         <=> satisfied_by(original, Obj(NodeOf(obj)))]_vars

(***************************************************************************)
(* C31                                                                     *)
(***************************************************************************)
\* The places of the lines that begin with line_start.
Matches(lines, line_start) == {i \in DOMAIN lines : lines[i].start = line_start}

\* The lines with the build prefix replaced in the first that begins with
\* line_start, and every other line as it is.
FirstMatchRewritten(lines, line_start) ==
    [i \in DOMAIN lines |->
        IF Matches(lines, line_start) # {} /\ i = MinOf(Matches(lines, line_start))
        THEN replace(lines[i], "/build", "/env")
        ELSE lines[i]]

\* C31: the rewrite of a pkg-config file (of a libtool file) replaces the
\* build prefix by the install prefix in the first line that begins with
\* prefix= (with libdir=) and in no other: every other line is written back
\* as it was and in its place, and for a file without such a line the
\* rewrite ends normally and leaves the content as it was.
C31_FirstMatchOnly ==
    req_op = "rewrite_text_first_match" =>
        /\ req_result.ok
        /\ req_result.value[1] = FirstMatchRewritten(req_args[1], req_args[2])

(***************************************************************************)
(* C32                                                                     *)
(***************************************************************************)
\* C32: solve(target) raises DependencyLoop only where the nodes reachable
\* from the target through the selected satisfiers hold a dependency cycle:
\* a selected dependency that a version not selected of another package
\* requires as well does not make it raise.
C32_LoopOnlyForCycle ==
    (SolveTargetEnded /\ outcome.status = "DependencyLoop")
        => ClosureHasCycle(TargetNode)

(***************************************************************************)
(* C33                                                                     *)
(***************************************************************************)
\* C33: the list solve returns has each object once at most, in every state
\* of the solver that add and from_obj lead to: also where several nodes
\* require a dependency, where a node was added after the dependency it
\* requires, and where two requirements of a node have the same satisfier.
C33_EachObjectOnce ==
    SolveReturned =>
        \A i \in DOMAIN outcome.result : \A j \in DOMAIN outcome.result :
            outcome.result[i] = outcome.result[j] => i = j

(***************************************************************************)
(* C34                                                                     *)
(***************************************************************************)
\* The nodes of the solver that are on a dependency cycle, the dependencies
\* of a node being the satisfiers selected for its requirements.
NodesOnCycle == {n \in Range(nodes) : n \in Closure(SelectedSatisfiers(n))}

\* C34: solve() without a target fails wherever the nodes of the solver hold
\* a dependency cycle, one that no root reaches included: it returns no list
\* that leaves the nodes of a cycle out.
C34_CycleMakesSolveFail ==
    (pc = "idle" /\ outcome.op = "solve" /\ target = {} /\ NodesOnCycle # {})
        => outcome.status # "returned"

\* The nodes of the solver that no node requires.
NodesWithoutDependents == {n \in Range(nodes) : heap[n].dependents = {}}

\* solve() has ended, one way or another.
SolveAllEnded == pc = "idle" /\ outcome.op = "solve" /\ target = {}

\* C34, as the code and spec.md have it: a list that solve() without a target
\* returns has only nodes that a node without dependents leads to through the
\* selected satisfiers, so that a cycle no root reaches does not make it fail
\* and the nodes of that cycle are left out of the list.
C34_OnlyWhatRootsReach ==
    (SolveAllEnded /\ outcome.status = "returned")
        => \A i \in DOMAIN outcome.result :
              NodeOf(outcome.result[i]) \in Closure(NodesWithoutDependents)

\* C34 at work: solve() has returned w-2.0 and u-1.0 from a solver that also
\* holds loop-b-1.0 and loop-c-1.0, which require each other.
C34_Witness ==
    /\ SolveAllEnded
    /\ outcome.result = <<Object("w-2.0", 0), Object("u-1.0", 0)>>
    /\ NodeOf(Object("loop-b-1.0", 0)) \in NodesOnCycle
    /\ NodeOf(Object("loop-c-1.0", 0)) \in NodesOnCycle

(***************************************************************************)
(* C35: from_obj ends by returning unless a merge conflicts                *)
(***************************************************************************)
\* The exceptions that leave Requirement.__add__, and so
\* SolverRequirement.merge, where two requirements do not go together.
MergeErrors ==
    {"InvalidRequirement", "InvalidPlatform", "ExclusiveVersionRequirements",
     "NameError"}

\* from_obj has ended.
FromObjEnded == pc = "idle" /\ outcome.op = "from_obj"

\* C35: from_obj ends by returning the solver unless two requirements of one
\* name fail to merge: a dependency cycle, or a repository that finds for an
\* unsatisfied requirement an object that already has a node, does not make
\* it raise the error of the object already in the solver.
C35_FromObjReturnsUnlessConflict ==
    FromObjEnded =>
        \/ outcome.status = "returned"
        \/ outcome.status \in MergeErrors

(***************************************************************************)
(* C36: the recursion of install into the dependencies ends                *)
(***************************************************************************)
\* install has ended.
InstallCallEnded == EnvIdle /\ env_outcome.op = "install" /\ env_outcome.status # "running"

C37_GraphConsistent ==
    (pc = "idle" /\ outcome.op \in {"add", "from_obj"})
        => \A n \in Range(nodes) :
             \A r \in DOMAIN heap[n].requirements :
                \A s \in heap[n].requirements[r] :
                   /\ r.name \in DOMAIN requirements
                   /\ s \in requirements[r.name].satisfiers
                   /\ n \in heap[s].dependents

(***************************************************************************)
(* C38: an add that fails on a conflict leaves the solver as it was        *)
(***************************************************************************)
\* The nodes that the requesters of the requirements of solver s refer to.
Requesters(reqs) == UNION {DOMAIN reqs[name].requesters : name \in DOMAIN reqs}

\* C38: where solver.add(obj) raises because a requirement of obj does not go
\* with the merged requirement of its name, the solver is left as it was
\* before the call: no SolverRequirement is made or changed, and every
\* requester is a node of solver.nodes.
C38_FailedAddChangesNothing ==
    [][\A obj \in AddPool : \A order \in Perms(RequirementsOf(obj.key)) :
          (Add(obj, order) /\ outcome'.status \in MergeErrors)
             => /\ UNCHANGED <<nodes, objects, requirements>>
                /\ Requesters(requirements') \subseteq Range(nodes')]_vars

(***************************************************************************)
(* C39: the directories of the environment stay                            *)
(***************************************************************************)
\* Every directory of Environment.directories exists.
LayoutExists == Directories \subseteq dirs

\* C39: in an environment whose directories were created, no step of install
\* or of uninstall takes one of them away: the prefix, bin, sbin, include,
\* lib, share, share/man, lib/pkgconfig and tmp exist after it as before.
C39_LayoutKept ==
    [][(LayoutExists /\ env_outcome'.op \in {"install", "uninstall"})
          => LayoutExists']_vars

(***************************************************************************)
(* C40: the files of the installed packages exist                          *)
(***************************************************************************)
\* Every path in the files of a package recorded in meta.packages is a file
\* under the prefix.
ListedFilesExist(files, m) ==
    \A n \in DOMAIN m : \A i \in DOMAIN MetaOf(m[n]).files :
        \E f \in {MetaOf(m[n]).files[i]} : f \in Paths /\ files[f] # Absent

\* C40: a step of install or of uninstall that does not raise keeps every
\* listed file of every recorded package in place: uninstalling one package
\* deletes no file that a package still installed lists.
C40_ListedFilesKept ==
    [][(/\ ListedFilesExist(fs, meta)
        /\ env_outcome'.op \in {"install", "uninstall"}
        /\ env_outcome'.status # "raised")
          => ListedFilesExist(fs', meta')]_vars

====
